---- MODULE Spec2Model ----
(***************************************************************************)
(* Model of the Nakama game module (src/nakama-module/main.go): the three  *)
(* per-user storage records (profile, wallet, inventory) and the five RPC  *)
(* handlers.  Every storage call of a handler is one step, so that calls   *)
(* may interleave between their reads and writes.                          *)
(*                                                                         *)
(* Go strings whose emptiness or prefix matters at the storage boundary    *)
(* (user ids, usernames) are sequences of characters; the other strings    *)
(* are TLA+ strings.  A Go map is a function; the nil map is NilMap.  A    *)
(* list of storage objects (the result of StorageRead) is a sequence of    *)
(* length 0 or 1.                                                          *)
(***************************************************************************)
EXTENDS Integers, Sequences, FiniteSets, TLC

\* ---------------------------------------------------------------- bounds

\* Number of calls started in one behaviour in which calls overlap.
MaxCalls == 3
\* Number of calls started in one behaviour in which calls follow one another.
MaxSeqCalls == 3
\* Number of calls started in one behaviour of a client who grants, equips,
\* computes and unequips.
MaxPlayCalls == 7
\* Number of compute_final_stats calls on one stored inventory.
MaxStatsCalls == 2
\* Number of calls started in one behaviour of a user whose wallet holds gold.
MaxWalletCalls == 3
\* Number of calls started on a stored inventory of two units.
MaxShareCalls == 4
\* Number of calls started when the generator repeats stored ids.
MaxLegacyCalls == 2
\* Number of create_unit calls over the sets of stat keys.
MaxValidateCalls == 1

Procs == {1, 2}

\* ------------------------------------------------------ contract constants

CodeBadRequest == 3
CodeNotFound == 5
CodePermission == 7
CodeInvalidArg == 3

AllowedStats ==
    <<"hp_max", "stamina_max", "mana_max", "melee", "ranged", "magic", "maneuver">>
AllowedRarities == <<"Common", "Uncommon", "Rare", "Epic", "Legendary", "Mythic">>
AllowedSlots == <<"Weapon", "Armor", "Relic">>
EquipmentSlotKeys == <<"weapon", "armor", "relic">>

Range(s) == {s[i] : i \in 1..Len(s)}

isAllowedStat(s) == \E i \in 1..Len(AllowedStats) : AllowedStats[i] = s
isAllowedRarity(s) == \E i \in 1..Len(AllowedRarities) : AllowedRarities[i] = s
\* An item-slot check that ignores the case of the first letter.
isAllowedItemSlotAnyCase(s) ==
    \E i \in 1..Len(AllowedSlots) : AllowedSlots[i] = s \/ EquipmentSlotKeys[i] = s

isAllowedItemSlot(s) == \E i \in 1..Len(AllowedSlots) : AllowedSlots[i] = s

isAllowedEquipmentSlotName(s) ==
    \E i \in 1..Len(EquipmentSlotKeys) : EquipmentSlotKeys[i] = s

\* ------------------------------------------------------------------ maps

\* The nil Go map (an absent JSON field, or JSON null).
NilMap == [nil |-> TRUE]
EmptyMap == <<>>
IsNil(m) == m = NilMap
Keys(m) == IF IsNil(m) THEN {} ELSE DOMAIN m
MapLen(m) == Cardinality(Keys(m))

\* m[k] = v on a non-nil map.
MapPut(m, k, v) == [x \in DOMAIN m \cup {k} |-> IF x = k THEN v ELSE m[x]]

\* ----------------------------------------------------------- validation

NoError == [err |-> FALSE, msg |-> "", key |-> ""]
Failure(msg, key) == [err |-> TRUE, msg |-> msg, key |-> key]

\* The first canonical key (in AllowedStats order) that stats lacks.
FirstMissing(stats) ==
    LET missing == {i \in 1..Len(AllowedStats) : AllowedStats[i] \notin Keys(stats)}
    IN  AllowedStats[CHOOSE i \in missing : \A j \in missing : i <= j]

\* validateUnitStats with its per-key membership check alone.
validateUnitStatsMembersOnly(stats) ==
    IF \E k \in Keys(stats) : ~isAllowedStat(k)
    THEN {Failure("invalid stat key", k) : k \in {x \in Keys(stats) : ~isAllowedStat(x)}}
    ELSE {NoError}

\* validateUnitStats without its per-key membership check.
validateUnitStatsSizeOnly(stats) ==
    IF MapLen(stats) # 7
    THEN {Failure("stats must contain exactly the 7 allowed keys", "")}
    ELSE {NoError}

\* validateUnitStats without its size check.
validateUnitStatsNoSize(stats) ==
    IF \E k \in Keys(stats) : ~isAllowedStat(k)
    THEN {Failure("invalid stat key", k) : k \in {x \in Keys(stats) : ~isAllowedStat(x)}}
    ELSE IF \E i \in 1..Len(AllowedStats) : AllowedStats[i] \notin Keys(stats)
    THEN {Failure("missing required stat", FirstMissing(stats))}
    ELSE {NoError}

\* The set of results validateUnitStats may return: Go visits the keys of a
\* map in an unspecified order, so any key outside the set may be the one named.
validateUnitStats(stats) ==
    IF MapLen(stats) # 7
    THEN {Failure("stats must contain exactly the 7 allowed keys", "")}
    ELSE IF \E k \in Keys(stats) : ~isAllowedStat(k)
    THEN {Failure("invalid stat key", k) : k \in {x \in Keys(stats) : ~isAllowedStat(x)}}
    ELSE IF \E i \in 1..Len(AllowedStats) : AllowedStats[i] \notin Keys(stats)
    THEN {Failure("missing required stat", FirstMissing(stats))}
    ELSE {NoError}

\* A bonus check that accepts every key.
validateBonusesNone(bonuses) == {NoError}

validateBonuses(bonuses) ==
    IF \E k \in Keys(bonuses) : ~isAllowedStat(k)
    THEN {Failure("invalid bonus key", k) : k \in {x \in Keys(bonuses) : ~isAllowedStat(x)}}
    ELSE {NoError}

\* ------------------------------------------------------------------ JSON

\* json.Marshal of an ItemInstance: "passive" carries omitempty, and a nil
\* bonuses map is written as null.
MarshalItem(it) ==
    LET base == [instanceId |-> it.instanceId, templateId |-> it.templateId,
                 rarity |-> it.rarity, slot |-> it.slot, bonuses |-> it.bonuses,
                 createdAt |-> it.createdAt]
    IN  IF it.passive = "" THEN base ELSE base @@ [passive |-> it.passive]

\* json.Unmarshal into an ItemInstance: an absent field keeps its zero value.
UnmarshalItem(j) ==
    [instanceId |-> j.instanceId, templateId |-> j.templateId, rarity |-> j.rarity,
     slot |-> j.slot, bonuses |-> j.bonuses,
     passive |-> IF "passive" \in DOMAIN j THEN j.passive ELSE "",
     createdAt |-> j.createdAt]

MarshalItems(items) ==
    IF IsNil(items) THEN NilMap ELSE [id \in DOMAIN items |-> MarshalItem(items[id])]

\* A marshalling that leaves out a map that is empty.
MarshalInventoryOmitEmpty(inv) ==
    [f \in {g \in {"items", "units"} : inv[g] # EmptyMap} |->
        IF f = "items" THEN MarshalItems(inv.items) ELSE inv.units]

MarshalInventory(inv) == [items |-> MarshalItems(inv.items), units |-> inv.units]

initInventory == [items |-> EmptyMap, units |-> EmptyMap]

\* json.Unmarshal of the inventory record into initInventory(): a field the
\* document lacks keeps the map initInventory made, a null field sets it to nil.
UnmarshalInventory(j) ==
    [items |-> IF "items" \notin DOMAIN j THEN initInventory.items
               ELSE IF IsNil(j.items) THEN NilMap
               ELSE [id \in DOMAIN j.items |-> UnmarshalItem(j.items[id])],
     units |-> IF "units" \notin DOMAIN j THEN initInventory.units ELSE j.units]

\* ----------------------------------------------------------------- state

U1 == <<"u", "s", "e", "r", "-", "0", "0", "0", "1">>
U2 == <<"b", "o", "b">>
UserIds == {U1, U2}
NoUser == <<>>

IdPool == <<"id1", "id2", "id3", "id4", "id5", "id6", "id7", "id8", "id9", "id10">>

VARIABLES
    adminSecret,     \* env["ADMIN_SECRET"] of the server ("" when unset)
    profileStore,    \* player/profile  : user id -> objects (length 0 or 1)
    walletStore,     \* player/wallet   : user id -> objects
    inventoryStore,  \* player/inventory: user id -> objects
    pc,              \* position of each call slot
    call,            \* locals of the call running in each slot
    nextId,          \* position of generateInstanceId in IdPool
    ncalls,          \* calls started
    created,         \* the units and items a call has returned to its caller
    ev,              \* the call that returned in the last step
    log              \* the equip and compute calls that succeeded, in order

vars == <<adminSecret, profileStore, walletStore, inventoryStore, pc, call,
          nextId, ncalls, created, ev, log>>

\* The wall clock, read by time.Now(): it advances as calls arrive.
now == ncalls

NoEv == [op |-> "none"]
Idle == [op |-> "none"]

Init ==
    /\ adminSecret \in {"", "s3cret"}
    /\ profileStore = [u \in UserIds |-> <<>>]
    /\ walletStore = [u \in UserIds |-> <<>>]
    /\ inventoryStore = [u \in UserIds |-> <<>>]
    /\ pc = [p \in Procs |-> "idle"]
    /\ call = [p \in Procs |-> Idle]
    /\ nextId = 1
    /\ ncalls = 0
    /\ created = {}
    /\ ev = NoEv
    /\ log = <<>>

\* ------------------------------------------------- handlers: before loading

\* Outcome of the part of a handler that precedes ensureProfileAndWallet:
\* an error response, or the user whose records are loaded and the username
\* handed to ensureProfileAndWallet.
Reject(code, msg, key) ==
    [err |-> TRUE, code |-> code, msg |-> msg, key |-> key,
     target |-> NoUser, username |-> <<>>]
Proceed(target, username) ==
    [err |-> FALSE, code |-> 0, msg |-> "", key |-> "",
     target |-> target, username |-> username]

\* mustGetUserId: the caller's id, required non-empty.
mustGetUserId(ctx) == ctx.user # NoUser

\* rpcGetState answering a missing caller as an invalid argument.
rpcGetStatePreInvalidArg(ctx, in) ==
    IF ~mustGetUserId(ctx) THEN {Reject(CodeInvalidArg, "user_id_required", "")}
    ELSE {Proceed(ctx.user, ctx.username)}

rpcGetStatePre(ctx, in) ==
    IF ~mustGetUserId(ctx) THEN {Reject(CodePermission, "user_id_required", "")}
    ELSE {Proceed(ctx.user, ctx.username)}

\* rpcCreateUnit handing the session username to the load step.
rpcCreateUnitPreNamed(ctx, in) ==
    IF ~mustGetUserId(ctx) THEN {Reject(CodePermission, "user_id_required", "")}
    ELSE IF in.text = "empty" THEN {Reject(CodeInvalidArg, "missing_payload", "")}
    ELSE IF in.text = "malformed" THEN {Reject(CodeInvalidArg, "invalid_json", "")}
    ELSE IF in.templateId = "" THEN {Reject(CodeInvalidArg, "missing_templateId", "")}
    ELSE IF ~isAllowedRarity(in.rarity) THEN {Reject(CodeInvalidArg, "invalid_rarity", "")}
    ELSE {IF r.err THEN Reject(CodeInvalidArg, r.msg, r.key)
          ELSE Proceed(ctx.user, ctx.username) : r \in validateUnitStats(in.stats)}

rpcCreateUnitPre(ctx, in) ==
    IF ~mustGetUserId(ctx) THEN {Reject(CodePermission, "user_id_required", "")}
    ELSE IF in.text = "empty" THEN {Reject(CodeInvalidArg, "missing_payload", "")}
    ELSE IF in.text = "malformed" THEN {Reject(CodeInvalidArg, "invalid_json", "")}
    ELSE IF in.templateId = "" THEN {Reject(CodeInvalidArg, "missing_templateId", "")}
    ELSE IF ~isAllowedRarity(in.rarity) THEN {Reject(CodeInvalidArg, "invalid_rarity", "")}
    ELSE {IF r.err THEN Reject(CodeInvalidArg, r.msg, r.key) ELSE Proceed(ctx.user, <<>>)
            : r \in validateUnitStats(in.stats)}

\* rpcGrantItem that only compares the secrets: with no server secret, a
\* payload without secret passes.
rpcGrantItemPreUnsetOpen(ctx, in, secret) ==
    IF in.text = "empty" THEN {Reject(CodeInvalidArg, "missing_payload", "")}
    ELSE IF in.text = "malformed" THEN {Reject(CodeInvalidArg, "invalid_json", "")}
    ELSE IF in.adminSecret # secret
    THEN {Reject(CodePermission, "admin_only", "")}
    ELSE IF in.targetUserId = NoUser /\ ~mustGetUserId(ctx)
    THEN {Reject(CodeInvalidArg, "targetUserId_required_when_not_authenticated", "")}
    ELSE IF in.templateId = "" \/ ~isAllowedRarity(in.rarity) \/ ~isAllowedItemSlot(in.slot)
    THEN {Reject(CodeInvalidArg, "missing_or_invalid_templateId_rarity_or_slot", "")}
    ELSE LET targetUserID == IF in.targetUserId = NoUser THEN ctx.user ELSE in.targetUserId
         IN  {IF r.err THEN Reject(CodeInvalidArg, r.msg, r.key)
              ELSE Proceed(targetUserID, <<>>) : r \in validateBonuses(in.bonuses)}

\* rpcGrantItem that asks for the caller's identity whatever the target.
rpcGrantItemPreCallerOnly(ctx, in, secret) ==
    IF in.text = "empty" THEN {Reject(CodeInvalidArg, "missing_payload", "")}
    ELSE IF in.text = "malformed" THEN {Reject(CodeInvalidArg, "invalid_json", "")}
    ELSE IF secret = "" \/ in.adminSecret # secret
    THEN {Reject(CodePermission, "admin_only", "")}
    ELSE IF ~mustGetUserId(ctx)
    THEN {Reject(CodeInvalidArg, "targetUserId_required_when_not_authenticated", "")}
    ELSE IF in.templateId = "" \/ ~isAllowedRarity(in.rarity) \/ ~isAllowedItemSlot(in.slot)
    THEN {Reject(CodeInvalidArg, "missing_or_invalid_templateId_rarity_or_slot", "")}
    ELSE LET targetUserID == IF in.targetUserId = NoUser THEN ctx.user ELSE in.targetUserId
         IN  {IF r.err THEN Reject(CodeInvalidArg, r.msg, r.key)
              ELSE Proceed(targetUserID, <<>>) : r \in validateBonuses(in.bonuses)}

rpcGrantItemPre(ctx, in, secret) ==
    IF in.text = "empty" THEN {Reject(CodeInvalidArg, "missing_payload", "")}
    ELSE IF in.text = "malformed" THEN {Reject(CodeInvalidArg, "invalid_json", "")}
    ELSE IF secret = "" \/ in.adminSecret # secret
    THEN {Reject(CodePermission, "admin_only", "")}
    ELSE IF in.targetUserId = NoUser /\ ~mustGetUserId(ctx)
    THEN {Reject(CodeInvalidArg, "targetUserId_required_when_not_authenticated", "")}
    ELSE IF in.templateId = "" \/ ~isAllowedRarity(in.rarity) \/ ~isAllowedItemSlot(in.slot)
    THEN {Reject(CodeInvalidArg, "missing_or_invalid_templateId_rarity_or_slot", "")}
    ELSE LET targetUserID == IF in.targetUserId = NoUser THEN ctx.user ELSE in.targetUserId
         IN  {IF r.err THEN Reject(CodeInvalidArg, r.msg, r.key)
              ELSE Proceed(targetUserID, <<>>) : r \in validateBonuses(in.bonuses)}

rpcEquipItemPre(ctx, in) ==
    IF ~mustGetUserId(ctx) THEN {Reject(CodePermission, "user_id_required", "")}
    ELSE IF in.text = "empty" THEN {Reject(CodeInvalidArg, "missing_payload", "")}
    ELSE IF in.text = "malformed" THEN {Reject(CodeInvalidArg, "invalid_json", "")}
    ELSE IF in.unitInstanceId = "" \/ in.slotName = ""
    THEN {Reject(CodeInvalidArg, "missing_unitInstanceId_or_slotName", "")}
    ELSE IF ~isAllowedEquipmentSlotName(in.slotName)
    THEN {Reject(CodeInvalidArg, "slotName must be weapon, armor, or relic", "")}
    ELSE {Proceed(ctx.user, <<>>)}

\* rpcComputeFinalStats without its check of an empty unitInstanceId.
rpcComputeFinalStatsPreNoIdCheck(ctx, in) ==
    IF ~mustGetUserId(ctx) THEN {Reject(CodePermission, "user_id_required", "")}
    ELSE IF in.text = "empty" THEN {Reject(CodeInvalidArg, "missing_payload", "")}
    ELSE IF in.text = "malformed" THEN {Reject(CodeInvalidArg, "invalid_json", "")}
    ELSE {Proceed(ctx.user, <<>>)}

rpcComputeFinalStatsPre(ctx, in) ==
    IF ~mustGetUserId(ctx) THEN {Reject(CodePermission, "user_id_required", "")}
    ELSE IF in.text = "empty" THEN {Reject(CodeInvalidArg, "missing_payload", "")}
    ELSE IF in.text = "malformed" THEN {Reject(CodeInvalidArg, "invalid_json", "")}
    ELSE IF in.unitInstanceId = "" THEN {Reject(CodeInvalidArg, "missing_unitInstanceId", "")}
    ELSE {Proceed(ctx.user, <<>>)}

\* The handler InitModule registers under each RPC name.
PreLoad(req, secret) ==
    CASE req.op = "rpc_get_state" -> rpcGetStatePre(req.ctx, req.in)
      [] req.op = "rpc_create_unit" -> rpcCreateUnitPre(req.ctx, req.in)
      [] req.op = "rpc_grant_item" -> rpcGrantItemPre(req.ctx, req.in, secret)
      [] req.op = "rpc_equip_item" -> rpcEquipItemPre(req.ctx, req.in)
      [] req.op = "rpc_compute_final_stats" -> rpcComputeFinalStatsPre(req.ctx, req.in)

\* -------------------------------------------------------------- responses

\* A returned call: its request, the response (code 0 is success), the
\* records it wrote, in order, whether one of its storage reads failed, whether
\* it reached ensureProfileAndWallet, the inventory record it read, and the
\* inventory document it handed to writeStorage (none unless it got that far).
Returned(c, code, msg, key, body, writes) ==
    [op |-> c.op, ctx |-> c.ctx, in |-> c.in, target |-> c.target,
     code |-> code, msg |-> msg, key |-> key, body |-> body,
     writes |-> writes, readFailed |-> c.readFailed,
     loaded |-> c.loaded, inventoryJSON |-> c.inventoryJSON, invRaw |-> <<>>]

NoBody == <<>>

\* ---------------------------------------------------------------- storage

\* A storage call succeeds, or fails on a transient error of the store.  An
\* action that makes a storage call takes the outcomes the store may give.
Reliable == {TRUE}
Flaky == {TRUE, FALSE}

\* A read that hands out the record of another user when the user has none.
readStorageAnyOwner(store, userID, ok) ==
    IF ~ok THEN <<>>
    ELSE IF store[userID] # <<>> THEN store[userID]
    ELSE store[CHOOSE u \in UserIds : u # userID]

\* readStorage: the stored value, or "" (no object) when the read fails or
\* nothing is stored.
readStorage(store, userID, ok) == IF ok THEN store[userID] ELSE <<>>

\* A write without a version: the record is replaced whole, whatever it held.
writeStorageOverwrite(store, userID, value) ==
    [err |-> FALSE, store |-> [store EXCEPT ![userID] = <<value>>]]

\* writeStorage: nk.StorageWrite with Version "*" writes the object only when
\* none is stored under the key; a write to an existing object is rejected
\* with an error and the stored object stays.
writeStorage(store, userID, value) ==
    IF store[userID] = <<>>
    THEN [err |-> FALSE, store |-> [store EXCEPT ![userID] = <<value>>]]
    ELSE [err |-> TRUE, store |-> store]

\* ------------------------------------------------------------- call start

NewCall(req, out) ==
    [op |-> req.op, ctx |-> req.ctx, in |-> req.in,
     target |-> out.target, username |-> out.username,
     profileJSON |-> <<>>, walletJSON |-> <<>>, inventoryJSON |-> <<>>,
     profile |-> <<>>, wallet |-> <<>>,
     writes |-> <<>>, readFailed |-> FALSE, loaded |-> TRUE]

Rejected(req) ==
    [op |-> req.op, ctx |-> req.ctx, in |-> req.in, target |-> NoUser,
     readFailed |-> FALSE, loaded |-> FALSE, inventoryJSON |-> <<>>]

\* A call arrives: the handler runs up to its first storage call, or returns
\* an error before it.
Begin(p, req) ==
    /\ pc[p] = "idle"
    /\ ncalls' = ncalls + 1
    /\ \E out \in PreLoad(req, adminSecret) :
         IF out.err
         THEN /\ ev' = Returned(Rejected(req), out.code, out.msg, out.key, NoBody, <<>>)
              /\ UNCHANGED <<pc, call>>
         ELSE /\ ev' = NoEv
              /\ pc' = [pc EXCEPT ![p] = "readProfile"]
              /\ call' = [call EXCEPT ![p] = NewCall(req, out)]
    /\ UNCHANGED <<adminSecret, profileStore, walletStore, inventoryStore,
                   nextId, created>>

\* --------------------------------------------- ensureProfileAndWallet

\* A load step that writes a new wallet whether or not one was read.
AfterReadsRewritesWallet(c) ==
    IF c.profileJSON = <<>> THEN "writeProfile" ELSE "writeWallet"

\* The step after the three reads: a record read as "" is created.
AfterReads(c) ==
    IF c.profileJSON = <<>> THEN "writeProfile"
    ELSE IF c.walletJSON = <<>> THEN "writeWallet"
    ELSE "finish"

AfterProfile(c) == IF c.walletJSON = <<>> THEN "writeWallet" ELSE "finish"

ReadProfile(p, outs) ==
    /\ pc[p] = "readProfile"
    /\ \E ok \in outs :
         /\ call' = [call EXCEPT
                ![p].profileJSON = readStorage(profileStore, call[p].target, ok),
                ![p].readFailed = @ \/ ~ok]
    /\ pc' = [pc EXCEPT ![p] = "readWallet"]
    /\ ev' = NoEv
    /\ UNCHANGED <<adminSecret, profileStore, walletStore, inventoryStore,
                   nextId, ncalls, created>>

ReadWallet(p, outs) ==
    /\ pc[p] = "readWallet"
    /\ \E ok \in outs :
         /\ call' = [call EXCEPT
                ![p].walletJSON = readStorage(walletStore, call[p].target, ok),
                ![p].readFailed = @ \/ ~ok]
    /\ pc' = [pc EXCEPT ![p] = "readInventory"]
    /\ ev' = NoEv
    /\ UNCHANGED <<adminSecret, profileStore, walletStore, inventoryStore,
                   nextId, ncalls, created>>

ReadInventory(p, outs) ==
    /\ pc[p] = "readInventory"
    /\ \E ok \in outs :
         LET c == [call[p] EXCEPT
                     !.inventoryJSON = readStorage(inventoryStore, call[p].target, ok),
                     !.readFailed = @ \/ ~ok]
         IN  /\ call' = [call EXCEPT ![p] = c]
             /\ pc' = [pc EXCEPT ![p] = AfterReads(c)]
    /\ ev' = NoEv
    /\ UNCHANGED <<adminSecret, profileStore, walletStore, inventoryStore,
                   nextId, ncalls, created>>

\* The error a handler returns when ensureProfileAndWallet fails.
LoadFailure(op) ==
    IF op = "rpc_get_state" THEN "failed_to_load_state" ELSE "failed_to_load_inventory"

\* The username of a new profile: the one supplied, else the first 8
\* characters of the user id (the whole id when it has at most 8).
DefaultUsername(userID, username) ==
    IF username # <<>> THEN username
    ELSE IF Len(userID) > 8 THEN SubSeq(userID, 1, 8)
    ELSE userID

NewProfile(userID, username, t) ==
    [username |-> DefaultUsername(userID, username), createdAt |-> t]

NewWallet == [gold |-> 0]

\* profileJSON == "": a profile is made and written.
WriteProfile(p, outs) ==
    /\ pc[p] = "writeProfile"
    /\ LET c == call[p]
           profile == NewProfile(c.target, c.username, now)
           w == writeStorage(profileStore, c.target, profile)
       IN  \E ok \in outs :
             /\ IF ok /\ ~w.err
                THEN /\ profileStore' = w.store
                     /\ call' = [call EXCEPT ![p].profile = <<profile>>,
                                             ![p].writes = Append(@, "profile")]
                     /\ pc' = [pc EXCEPT ![p] = AfterProfile(c)]
                     /\ ev' = NoEv
                ELSE /\ ev' = Returned(c, CodeBadRequest, LoadFailure(c.op), "",
                                       NoBody, c.writes)
                     /\ pc' = [pc EXCEPT ![p] = "idle"]
                     /\ call' = [call EXCEPT ![p] = Idle]
                     /\ UNCHANGED profileStore
    /\ UNCHANGED <<adminSecret, walletStore, inventoryStore, nextId, ncalls, created>>

\* walletJSON == "": a wallet with no gold is made and written.
WriteWallet(p, outs) ==
    /\ pc[p] = "writeWallet"
    /\ LET c == call[p]
           w == writeStorage(walletStore, c.target, NewWallet)
       IN  \E ok \in outs :
             /\ IF ok /\ ~w.err
                THEN /\ walletStore' = w.store
                     /\ call' = [call EXCEPT ![p].wallet = <<NewWallet>>,
                                             ![p].writes = Append(@, "wallet")]
                     /\ pc' = [pc EXCEPT ![p] = "finish"]
                     /\ ev' = NoEv
                ELSE /\ ev' = Returned(c, CodeBadRequest, LoadFailure(c.op), "",
                                       NoBody, c.writes)
                     /\ pc' = [pc EXCEPT ![p] = "idle"]
                     /\ call' = [call EXCEPT ![p] = Idle]
                     /\ UNCHANGED walletStore
    /\ UNCHANGED <<adminSecret, profileStore, inventoryStore, nextId, ncalls, created>>

\* What ensureProfileAndWallet returns once its writes are done.
ProfileOf(c) == IF c.profileJSON = <<>> THEN c.profile[1] ELSE c.profileJSON[1]
WalletOf(c) == IF c.walletJSON = <<>> THEN c.wallet[1] ELSE c.walletJSON[1]

\* The inventory ensureProfileAndWallet makes of the document it read: a new
\* one for "", else the document unmarshalled, a nil map replaced by an empty one.
LoadInventory(inventoryJSON) ==
    IF inventoryJSON = <<>> THEN initInventory
    ELSE LET inv == UnmarshalInventory(inventoryJSON[1])
         IN  [items |-> IF IsNil(inv.items) THEN EmptyMap ELSE inv.items,
              units |-> IF IsNil(inv.units) THEN EmptyMap ELSE inv.units]

InventoryOf(c) == LoadInventory(c.inventoryJSON)

\* ----------------------------------------------------- handlers: after load

\* generateInstanceId: a new identifier at every call.
generateInstanceId(n) == IdPool[n]

\* Visits in which a key may come up again in place of another.
OrdersWithRepeats(S) == [1..Cardinality(S) -> S]

\* The orders in which Go may visit the keys of a map.
Orders(S) ==
    {f \in [1..Cardinality(S) -> S] : \A i, j \in 1..Cardinality(S) : f[i] = f[j] => i = j}

Return(p, code, msg, body, writes) ==
    /\ ev' = Returned(call[p], code, msg, "", body, writes)
    /\ pc' = [pc EXCEPT ![p] = "idle"]
    /\ call' = [call EXCEPT ![p] = Idle]

\* The return of a handler that marshalled the inventory and called
\* writeStorage with it, whatever the store answered.
ReturnSaved(p, code, msg, body, writes, inv) ==
    /\ ev' = [Returned(call[p], code, msg, "", body, writes)
                EXCEPT !.invRaw = <<MarshalInventory(inv)>>]
    /\ pc' = [pc EXCEPT ![p] = "idle"]
    /\ call' = [call EXCEPT ![p] = Idle]

\* A save that reports success and stores nothing.
SaveInventoryDropped(p, inv, ok) == [err |-> FALSE, store |-> inventoryStore]

\* A save that replaces the record a user has with the entries the call added.
SaveInventoryNewOnly(p, inv, ok) ==
    LET old == IF inventoryStore[call[p].target] = <<>> THEN initInventory
               ELSE UnmarshalInventory(inventoryStore[call[p].target][1])
    IN  writeStorageOverwrite(inventoryStore, call[p].target,
            MarshalInventory(
                [items |-> [id \in DOMAIN inv.items \ DOMAIN old.items |-> inv.items[id]],
                 units |-> [id \in DOMAIN inv.units \ DOMAIN old.units |-> inv.units[id]]]))

\* The inventory record is saved: one write of the whole record, which fails
\* on a storage error and when the user already has an inventory record.
SaveInventory(p, inv, ok) ==
    IF ok
    THEN writeStorage(inventoryStore, call[p].target, MarshalInventory(inv))
    ELSE [err |-> TRUE, store |-> inventoryStore]

Created(kind, id, user) == [kind |-> kind, id |-> id, user |-> user]

GetState(p) ==
    /\ pc[p] = "finish"
    /\ call[p].op = "rpc_get_state"
    /\ LET c == call[p]
           inv == InventoryOf(c)
       IN  \E order \in Orders(DOMAIN inv.units) :
             Return(p, 0, "",
                    [profile |-> ProfileOf(c), wallet |-> WalletOf(c),
                     inventorySummary |-> [itemsCount |-> MapLen(inv.items),
                                           unitsCount |-> MapLen(inv.units)],
                     units |-> [i \in DOMAIN order |-> inv.units[order[i]]]],
                    c.writes)
    /\ UNCHANGED <<adminSecret, profileStore, walletStore, inventoryStore,
                   nextId, ncalls, created>>

\* A unit made without its relic slot.
NewUnitTwoSlots(instanceId, in) ==
    [instanceId |-> instanceId, templateId |-> in.templateId, rarity |-> in.rarity,
     stats |-> in.stats, equipment |-> [weapon |-> "", armor |-> ""]]

NewUnit(instanceId, in) ==
    [instanceId |-> instanceId, templateId |-> in.templateId, rarity |-> in.rarity,
     stats |-> in.stats,
     equipment |-> [weapon |-> "", armor |-> "", relic |-> ""]]

CreateUnit(p, outs) ==
    /\ pc[p] = "finish"
    /\ call[p].op = "rpc_create_unit"
    /\ nextId <= Len(IdPool)
    /\ LET c == call[p]
           inv == InventoryOf(c)
           instanceId == generateInstanceId(nextId)
           unit == NewUnit(instanceId, c.in)
           saved == [inv EXCEPT !.units = MapPut(inv.units, instanceId, unit)]
       IN  \E ok \in outs :
             /\ inventoryStore' = SaveInventory(p, saved, ok).store
             /\ IF ~SaveInventory(p, saved, ok).err
                THEN /\ ReturnSaved(p, 0, "", [unit |-> unit],
                                     Append(c.writes, "inventory"), saved)
                     /\ created' = created \cup {Created("unit", instanceId, c.target)}
                ELSE /\ ReturnSaved(p, CodeBadRequest, "failed_to_save_unit", NoBody,
                                     c.writes, saved)
                     /\ UNCHANGED created
    /\ nextId' = nextId + 1
    /\ UNCHANGED <<adminSecret, profileStore, walletStore, ncalls>>

\* An item made without the passive of the payload.
NewItemNoPassive(instanceId, in, t) ==
    [instanceId |-> instanceId, templateId |-> in.templateId, rarity |-> in.rarity,
     slot |-> in.slot,
     bonuses |-> IF IsNil(in.bonuses) THEN EmptyMap ELSE in.bonuses,
     passive |-> "", createdAt |-> t]

NewItem(instanceId, in, t) ==
    [instanceId |-> instanceId, templateId |-> in.templateId, rarity |-> in.rarity,
     slot |-> in.slot,
     bonuses |-> IF IsNil(in.bonuses) THEN EmptyMap ELSE in.bonuses,
     passive |-> in.passive, createdAt |-> t]

GrantItem(p, outs) ==
    /\ pc[p] = "finish"
    /\ call[p].op = "rpc_grant_item"
    /\ nextId <= Len(IdPool)
    /\ LET c == call[p]
           inv == InventoryOf(c)
           instanceId == generateInstanceId(nextId)
           item == NewItem(instanceId, c.in, now)
           saved == [inv EXCEPT !.items = MapPut(inv.items, instanceId, item)]
       IN  \E ok \in outs :
             /\ inventoryStore' = SaveInventory(p, saved, ok).store
             /\ IF ~SaveInventory(p, saved, ok).err
                THEN /\ ReturnSaved(p, 0, "", [item |-> item],
                                     Append(c.writes, "inventory"), saved)
                     /\ created' = created \cup {Created("item", instanceId, c.target)}
                ELSE /\ ReturnSaved(p, CodeBadRequest, "failed_to_save_item", NoBody,
                                     c.writes, saved)
                     /\ UNCHANGED created
    /\ nextId' = nextId + 1
    /\ UNCHANGED <<adminSecret, profileStore, walletStore, ncalls>>

\* A slot match that lets every item into every slot.
slotMatchEvery(slotName, slot) == TRUE

\* weapon-Weapon, armor-Armor, relic-Relic.
slotMatch(slotName, slot) ==
    \/ slotName = "weapon" /\ slot = "Weapon"
    \/ slotName = "armor" /\ slot = "Armor"
    \/ slotName = "relic" /\ slot = "Relic"

\* The string a *string payload field stands for: "" when null or omitted.
Deref(ptr) == IF ptr = <<>> THEN "" ELSE ptr[1]

\* An equip that does not look the item up: an id the inventory lacks is put
\* into the slot.
EquipSkipsItemLookup(inv, in) ==
    LET itemInstanceId == Deref(in.itemInstanceId)
        set(v) ==
            LET unit == [inv.units[in.unitInstanceId] EXCEPT
                           !.equipment = MapPut(@, in.slotName, v)]
            IN  [err |-> FALSE, code |-> 0, msg |-> "", unit |-> unit,
                 inv |-> [inv EXCEPT !.units[in.unitInstanceId] = unit]]
        fail(code, msg) == [err |-> TRUE, code |-> code, msg |-> msg]
    IN  IF in.unitInstanceId \notin DOMAIN inv.units THEN fail(CodeNotFound, "unit_not_found")
        ELSE IF itemInstanceId # "" /\ itemInstanceId \in DOMAIN inv.items
        THEN IF ~slotMatch(in.slotName, inv.items[itemInstanceId].slot)
             THEN fail(CodeInvalidArg, "item_slot_mismatch")
             ELSE set(itemInstanceId)
        ELSE set(itemInstanceId)

\* An equip that looks the item up before the unit.
EquipItemFirst(inv, in) ==
    LET itemInstanceId == Deref(in.itemInstanceId)
        set(v) ==
            LET unit == [inv.units[in.unitInstanceId] EXCEPT
                           !.equipment = MapPut(@, in.slotName, v)]
            IN  [err |-> FALSE, code |-> 0, msg |-> "", unit |-> unit,
                 inv |-> [inv EXCEPT !.units[in.unitInstanceId] = unit]]
        fail(code, msg) == [err |-> TRUE, code |-> code, msg |-> msg]
    IN  IF itemInstanceId # "" /\ itemInstanceId \notin DOMAIN inv.items
        THEN fail(CodeNotFound, "item_not_found")
        ELSE IF in.unitInstanceId \notin DOMAIN inv.units
        THEN fail(CodeNotFound, "unit_not_found")
        ELSE IF itemInstanceId # ""
        THEN IF ~slotMatch(in.slotName, inv.items[itemInstanceId].slot)
             THEN fail(CodeInvalidArg, "item_slot_mismatch")
             ELSE set(itemInstanceId)
        ELSE set("")

\* An equip that clears the slot for a nil itemInstanceId only, and looks the
\* empty string up as an item id.
EquipNilOnly(inv, in) ==
    LET itemInstanceId == Deref(in.itemInstanceId)
        set(v) ==
            LET unit == [inv.units[in.unitInstanceId] EXCEPT
                           !.equipment = MapPut(@, in.slotName, v)]
            IN  [err |-> FALSE, code |-> 0, msg |-> "", unit |-> unit,
                 inv |-> [inv EXCEPT !.units[in.unitInstanceId] = unit]]
        fail(code, msg) == [err |-> TRUE, code |-> code, msg |-> msg]
    IN  IF in.unitInstanceId \notin DOMAIN inv.units THEN fail(CodeNotFound, "unit_not_found")
        ELSE IF in.itemInstanceId # <<>>
        THEN IF itemInstanceId \notin DOMAIN inv.items
             THEN fail(CodeNotFound, "item_not_found")
             ELSE IF ~slotMatch(in.slotName, inv.items[itemInstanceId].slot)
             THEN fail(CodeInvalidArg, "item_slot_mismatch")
             ELSE set(itemInstanceId)
        ELSE set("")

\* What rpcEquipItem does with the loaded inventory: an error, or the
\* inventory to save and the unit to return.
Equip(inv, in) ==
    LET itemInstanceId == Deref(in.itemInstanceId)
        set(v) ==
            LET unit == [inv.units[in.unitInstanceId] EXCEPT
                           !.equipment = MapPut(@, in.slotName, v)]
            IN  [err |-> FALSE, code |-> 0, msg |-> "", unit |-> unit,
                 inv |-> [inv EXCEPT !.units[in.unitInstanceId] = unit]]
        fail(code, msg) == [err |-> TRUE, code |-> code, msg |-> msg]
    IN  IF in.unitInstanceId \notin DOMAIN inv.units THEN fail(CodeNotFound, "unit_not_found")
        ELSE IF itemInstanceId # ""
        THEN IF itemInstanceId \notin DOMAIN inv.items
             THEN fail(CodeNotFound, "item_not_found")
             ELSE IF ~slotMatch(in.slotName, inv.items[itemInstanceId].slot)
             THEN fail(CodeInvalidArg, "item_slot_mismatch")
             ELSE set(itemInstanceId)
        ELSE set("")

EquipItem(p, outs) ==
    /\ pc[p] = "finish"
    /\ call[p].op = "rpc_equip_item"
    /\ LET c == call[p]
           r == Equip(InventoryOf(c), c.in)
       IN  IF r.err
           THEN /\ Return(p, r.code, r.msg, NoBody, c.writes)
                /\ UNCHANGED inventoryStore
           ELSE \E ok \in outs :
                  /\ inventoryStore' = SaveInventory(p, r.inv, ok).store
                  /\ IF ~SaveInventory(p, r.inv, ok).err
                     THEN ReturnSaved(p, 0, "", [unit |-> r.unit],
                                      Append(c.writes, "inventory"), r.inv)
                     ELSE ReturnSaved(p, CodeBadRequest, "failed_to_save_equipment",
                                      NoBody, c.writes, r.inv)
    /\ UNCHANGED <<adminSecret, profileStore, walletStore, nextId, ncalls, created>>

\* unit.Stats[k], 0 for a key the map lacks.
StatOf(stats, k) == IF k \in Keys(stats) THEN stats[k] ELSE 0

\* A pass that puts the bonus in place of the stat instead of adding it.
AddSlotOverwrites(final, inv, itemId) ==
    IF itemId = "" THEN final
    ELSE IF itemId \notin DOMAIN inv.items THEN final
    ELSE LET bonuses == inv.items[itemId].bonuses
         IN  [k \in DOMAIN final |->
                 IF k \in Keys(bonuses) /\ isAllowedStat(k)
                 THEN bonuses[k] ELSE final[k]]

\* One pass of the loop over unit.Equipment: the bonuses of the item in a slot
\* are added, an empty slot or a missing item is skipped.
AddSlot(final, inv, itemId) ==
    IF itemId = "" THEN final
    ELSE IF itemId \notin DOMAIN inv.items THEN final
    ELSE LET bonuses == inv.items[itemId].bonuses
         IN  [k \in DOMAIN final |->
                 IF k \in Keys(bonuses) /\ isAllowedStat(k)
                 THEN final[k] + bonuses[k] ELSE final[k]]

\* A loop over the slots that stops after the first slot it visits.
AddSlotsFirstOnly(final, inv, equipment, order) ==
    IF order = <<>> THEN final ELSE AddSlot(final, inv, equipment[Head(order)])

RECURSIVE AddSlots(_, _, _, _)
AddSlots(final, inv, equipment, order) ==
    IF order = <<>> THEN final
    ELSE AddSlots(AddSlot(final, inv, equipment[Head(order)]), inv, equipment, Tail(order))

\* base + sum of equipped item bonuses, the slots visited in the given order.
FinalStats(unit, inv, order) ==
    AddSlots([k \in Range(AllowedStats) |-> StatOf(unit.stats, k)], inv,
             unit.equipment, order)

\* A compute_final_stats that saves the inventory it loaded before it answers.
ComputeFinalStatsSaving(p) ==
    /\ pc[p] = "finish"
    /\ call[p].op = "rpc_compute_final_stats"
    /\ LET c == call[p]
           inv == InventoryOf(c)
           id == c.in.unitInstanceId
       IN  /\ inventoryStore' = SaveInventory(p, inv, TRUE).store
           /\ IF id \notin DOMAIN inv.units
              THEN Return(p, CodeNotFound, "unit_not_found", NoBody,
                          Append(c.writes, "inventory"))
              ELSE \E order \in Orders(DOMAIN inv.units[id].equipment) :
                     Return(p, 0, "",
                            [unitInstanceId |-> id, baseStats |-> inv.units[id].stats,
                             finalStats |-> FinalStats(inv.units[id], inv, order)],
                            Append(c.writes, "inventory"))
    /\ UNCHANGED <<adminSecret, profileStore, walletStore, nextId, ncalls, created>>

ComputeFinalStats(p) ==
    /\ pc[p] = "finish"
    /\ call[p].op = "rpc_compute_final_stats"
    /\ LET c == call[p]
           inv == InventoryOf(c)
           id == c.in.unitInstanceId
       IN  IF id \notin DOMAIN inv.units
           THEN Return(p, CodeNotFound, "unit_not_found", NoBody, c.writes)
           ELSE \E order \in Orders(DOMAIN inv.units[id].equipment) :
                  Return(p, 0, "",
                         [unitInstanceId |-> id, baseStats |-> inv.units[id].stats,
                          finalStats |-> FinalStats(inv.units[id], inv, order)],
                         c.writes)
    /\ UNCHANGED <<adminSecret, profileStore, walletStore, inventoryStore,
                   nextId, ncalls, created>>

\* ---------------------------------------------------------------- requests

Nick == <<"n", "i", "c", "k">>

\* Callers: unauthenticated, or a user without or with a session username.
Anonymous == [user |-> NoUser, username |-> <<>>]
Caller(u) == [user |-> u, username |-> <<>>]
Named(u) == [user |-> u, username |-> Nick]

Request(op, ctx, in) == [op |-> op, ctx |-> ctx, in |-> in]

StatsA == [hp_max |-> 100, stamina_max |-> 50, mana_max |-> 20, melee |-> 10,
           ranged |-> 2, magic |-> 0, maneuver |-> 5]
\* A canonical key missing, an extra key, an unknown key in place of a canonical one.
StatsMissing == [hp_max |-> 100, stamina_max |-> 50, mana_max |-> 20, melee |-> 10,
                 ranged |-> 2, magic |-> 0]
StatsExtra == [hp_max |-> 100, stamina_max |-> 50, mana_max |-> 20, melee |-> 10,
               ranged |-> 2, magic |-> 0, maneuver |-> 5, luck |-> 1]
StatsReplaced == [hp_max |-> 100, stamina_max |-> 50, mana_max |-> 20, melee |-> 10,
                  ranged |-> 2, magic |-> 0, luck |-> 1]

NoPayload == [text |-> "empty"]
BadPayload == [text |-> "malformed"]
EmptyObject == [text |-> "json"]

\* A valid create_unit payload, and payloads that differ from it in one field.
CreateUnitValid ==
    [text |-> "json", templateId |-> "warrior_01", rarity |-> "Rare", stats |-> StatsA]
CreateUnitPayloads ==
    {NoPayload, BadPayload, CreateUnitValid,
     [CreateUnitValid EXCEPT !.templateId = ""],
     [CreateUnitValid EXCEPT !.rarity = "rare"]}
        \cup {[CreateUnitValid EXCEPT !.stats = m] :
                 m \in {StatsMissing, StatsExtra, StatsReplaced, EmptyMap, NilMap}}

\* A valid grant_item payload, and payloads that differ from it in one field.
GrantItemValid ==
    [text |-> "json", adminSecret |-> "s3cret", templateId |-> "sword_01",
     rarity |-> "Uncommon", slot |-> "Weapon", bonuses |-> [melee |-> 3],
     passive |-> "Life steal", targetUserId |-> NoUser]
GrantItemPayloads ==
    {NoPayload, BadPayload, GrantItemValid,
     [GrantItemValid EXCEPT !.templateId = ""],
     [GrantItemValid EXCEPT !.rarity = "Unique"],
     [GrantItemValid EXCEPT !.slot = "weapon"],
     [GrantItemValid EXCEPT !.slot = "Armor", !.passive = ""],
     [GrantItemValid EXCEPT !.targetUserId = U2]}
        \cup {[GrantItemValid EXCEPT !.adminSecret = x] : x \in {"", "guess"}}
        \cup {[GrantItemValid EXCEPT !.bonuses = m] :
                 m \in {NilMap, EmptyMap, [melee |-> 2, hp_max |-> 5], [luck |-> 1],
                        [melee |-> 3, luck |-> 1]}}

EquipItemPayloads ==
    {NoPayload, BadPayload}
        \cup [text : {"json"}, unitInstanceId : {"id1", "id2"},
              slotName : {"weapon", "armor"},
              itemInstanceId : {<<>>, <<"id1">>, <<"id2">>}]
        \cup {[text |-> "json", unitInstanceId |-> "", slotName |-> "weapon",
               itemInstanceId |-> <<>>],
              [text |-> "json", unitInstanceId |-> "id1", slotName |-> "",
               itemInstanceId |-> <<>>],
              [text |-> "json", unitInstanceId |-> "id1", slotName |-> "Weapon",
               itemInstanceId |-> <<"id2">>],
              [text |-> "json", unitInstanceId |-> "id1", slotName |-> "weapon",
               itemInstanceId |-> <<"">>]}

ComputeFinalStatsPayloads ==
    {NoPayload, BadPayload} \cup [text : {"json"}, unitInstanceId : {"", "id1", "id2"}]

Requests ==
    {Request("rpc_get_state", c, EmptyObject) :
        c \in {Anonymous, Caller(U1), Named(U1), Caller(U2)}}
    \cup {Request("rpc_create_unit", Caller(U1), in) : in \in CreateUnitPayloads}
    \cup {Request("rpc_create_unit", c, CreateUnitValid) : c \in {Anonymous, Named(U1)}}
    \cup {Request("rpc_grant_item", Caller(U1), in) : in \in GrantItemPayloads}
    \cup {Request("rpc_grant_item", Anonymous, in) :
            in \in {GrantItemValid, [GrantItemValid EXCEPT !.targetUserId = U2],
                    [GrantItemValid EXCEPT !.adminSecret = "guess", !.templateId = ""]}}
    \cup {Request("rpc_equip_item", Caller(U1), in) : in \in EquipItemPayloads}
    \cup {Request("rpc_equip_item", c,
                  [text |-> "json", unitInstanceId |-> "id1", slotName |-> "weapon",
                   itemInstanceId |-> <<"id2">>]) : c \in {Anonymous, Caller(U2)}}
    \cup {Request("rpc_compute_final_stats", Caller(U1), in) :
            in \in ComputeFinalStatsPayloads}
    \cup {Request("rpc_compute_final_stats", c,
                  [text |-> "json", unitInstanceId |-> "id1"]) :
            c \in {Anonymous, Caller(U2)}}

\* The requests of overlapping calls: those that reach the storage, and one
\* that each validation before it turns down.
OverlapRequests ==
    {Request("rpc_get_state", Named(U1), EmptyObject),
     Request("rpc_create_unit", Caller(U1), CreateUnitValid),
     Request("rpc_create_unit", Caller(U1), [CreateUnitValid EXCEPT !.stats = StatsReplaced]),
     Request("rpc_grant_item", Caller(U1), GrantItemValid),
     Request("rpc_grant_item", Caller(U1),
             [GrantItemValid EXCEPT !.bonuses = [melee |-> 3, luck |-> 1]]),
     Request("rpc_equip_item", Caller(U1),
             [text |-> "json", unitInstanceId |-> "id1", slotName |-> "Weapon",
              itemInstanceId |-> <<>>]),
     Request("rpc_compute_final_stats", Caller(U1),
             [text |-> "json", unitInstanceId |-> "id1"])}
    \cup {Request("rpc_equip_item", Caller(U1), in) :
            in \in [text : {"json"}, unitInstanceId : {"id1"},
                    slotName : {"weapon", "armor"},
                    itemInstanceId : {<<>>, <<"id2">>}]}

\* ----------------------------------------------------------- specification

Step(p, outs) ==
    \/ ReadProfile(p, outs)
    \/ ReadWallet(p, outs)
    \/ ReadInventory(p, outs)
    \/ WriteProfile(p, outs)
    \/ WriteWallet(p, outs)
    \/ GetState(p)
    \/ CreateUnit(p, outs)
    \/ GrantItem(p, outs)
    \/ EquipItem(p, outs)
    \/ ComputeFinalStats(p)

\* Calls of two clients overlap: each storage call is a step of its own.  A
\* call takes the first slot when it is free.
Next ==
    \/ \E p \in Procs : \E req \in OverlapRequests :
         ncalls < MaxCalls /\ (p = 2 => pc[1] # "idle") /\ Begin(p, req)
                           /\ UNCHANGED log
    \/ \E p \in Procs : Step(p, Reliable) /\ UNCHANGED log

Spec == Init /\ [][Next]_vars

\* One client, a store that may fail: a call starts when the one before it
\* has returned.
NextSeq ==
    \/ \E req \in Requests : ncalls < MaxSeqCalls /\ Begin(1, req) /\ UNCHANGED log
    \/ Step(1, Flaky) /\ UNCHANGED log

SpecSeq == Init /\ [][NextSeq]_vars

\* ------------------------------------------------------------------ claims

StatKeys == Range(AllowedStats)
SlotNames == Range(EquipmentSlotKeys)

\* The stored inventory of a user, as ensureProfileAndWallet would load it.
Stored(u) == LoadInventory(inventoryStore[u])
StoredUnits(u) == Stored(u).units
StoredItems(u) == Stored(u).items

Succeeded(op) == ev.op = op /\ ev.code = 0

\* C1: every unit of every stored inventory has a stats map whose keys are
\* exactly the 7 canonical stat keys.
C1_UnitStatsExact ==
    \A u \in UserIds : \A id \in DOMAIN StoredUnits(u) :
        /\ ~IsNil(StoredUnits(u)[id].stats)
        /\ DOMAIN StoredUnits(u)[id].stats = StatKeys

\* A unit is stored while another call is under way.
C1_Witness ==
    /\ \E id \in DOMAIN StoredUnits(U1) : StoredUnits(U1)[id].stats = StatsA
    /\ \E p \in Procs : pc[p] = "finish"

\* C2: every stored unit's equipment map has exactly the keys weapon, armor
\* and relic.
C2_EquipmentKeysExact ==
    \A u \in UserIds : \A id \in DOMAIN StoredUnits(u) :
        DOMAIN StoredUnits(u)[id].equipment = SlotNames

\* An equip_item call on a stored unit has returned: the unit has its three
\* slots.
C2_Witness ==
    /\ ev.op = "rpc_equip_item" /\ ev.loaded
    /\ ev.in.unitInstanceId \in DOMAIN StoredUnits(U1)
    /\ inventoryStore[U1] = ev.inventoryJSON
    /\ DOMAIN StoredUnits(U1)[ev.in.unitInstanceId].equipment = {"weapon", "armor", "relic"}

\* C3: in every stored inventory, a slot naming an item of the items map
\* names an item whose slot field is the counterpart of the slot name.
C3_SlotMatches ==
    \A u \in UserIds : \A id \in DOMAIN StoredUnits(u) :
        \A s \in DOMAIN StoredUnits(u)[id].equipment :
            LET itemId == StoredUnits(u)[id].equipment[s]
            IN  itemId # "" /\ itemId \in DOMAIN StoredItems(u) =>
                  \E i \in 1..Len(EquipmentSlotKeys) :
                      /\ s = EquipmentSlotKeys[i]
                      /\ StoredItems(u)[itemId].slot = AllowedSlots[i]

\* The responses that report a failed storage call.
StorageFailures ==
    {"failed_to_load_state", "failed_to_load_inventory", "failed_to_save_unit",
     "failed_to_save_item", "failed_to_save_equipment"}

Returns(op) == ev.op = op /\ ev.in.text = "json"

\* A grant_item request that passes every check before the bonuses check.
GrantReachesBonuses ==
    /\ Returns("rpc_grant_item")
    /\ adminSecret # "" /\ ev.in.adminSecret = adminSecret
    /\ ev.in.targetUserId # NoUser \/ ev.ctx.user # NoUser
    /\ ev.in.templateId # ""
    /\ ev.in.rarity \in Range(AllowedRarities)
    /\ ev.in.slot \in Range(AllowedSlots)

\* C4: grant_item turns down, as an invalid argument, a bonuses map with a key
\* outside the 7 canonical keys; it accepts an absent, an empty and a partial
\* map, an absent map being stored as the empty map; and the bonus keys of
\* every stored item are canonical stat keys.
C4_BonusKeysCanonical ==
    /\ GrantReachesBonuses /\ ~(Keys(ev.in.bonuses) \subseteq StatKeys) =>
          /\ ev.code = CodeInvalidArg
          /\ ev.msg = "invalid bonus key"
          /\ ev.key \in Keys(ev.in.bonuses) \ StatKeys
          /\ ev.writes = <<>>
    /\ GrantReachesBonuses /\ Keys(ev.in.bonuses) \subseteq StatKeys =>
          \/ ev.code # 0 /\ ev.msg \in StorageFailures
          \/ /\ ev.code = 0
             /\ ev.body.item.bonuses =
                  IF IsNil(ev.in.bonuses) THEN EmptyMap ELSE ev.in.bonuses
             /\ ev.body.item.instanceId \in DOMAIN StoredItems(ev.target)
             /\ StoredItems(ev.target)[ev.body.item.instanceId] = ev.body.item
    /\ \A u \in UserIds : \A id \in DOMAIN StoredItems(u) :
          /\ ~IsNil(StoredItems(u)[id].bonuses)
          /\ DOMAIN StoredItems(u)[id].bonuses \subseteq StatKeys

\* An item granted without a bonuses map is stored with the empty map.
C4_Witness ==
    /\ Succeeded("rpc_grant_item")
    /\ IsNil(ev.in.bonuses)
    /\ StoredItems(ev.target)[ev.body.item.instanceId].bonuses = EmptyMap

\* A create_unit request that passes every check of the handler.
CreateUnitIsValid ==
    /\ Returns("rpc_create_unit")
    /\ ev.ctx.user # NoUser
    /\ ev.in.templateId # ""
    /\ ev.in.rarity \in Range(AllowedRarities)
    /\ ~IsNil(ev.in.stats) /\ DOMAIN ev.in.stats = StatKeys

\* C5: a valid create_unit call, storage succeeding, returns a unit with the
\* submitted stats, templateId and rarity and three empty slots, and the
\* stored inventory of the caller holds that unit under its instanceId.
C5_CreateUnitResult ==
    /\ CreateUnitIsValid => ev.code = 0 \/ ev.msg \in StorageFailures
    /\ Succeeded("rpc_create_unit") =>
          LET unit == ev.body.unit
          IN  /\ CreateUnitIsValid
              /\ unit.stats = ev.in.stats
              /\ unit.templateId = ev.in.templateId
              /\ unit.rarity = ev.in.rarity
              /\ unit.equipment = [weapon |-> "", armor |-> "", relic |-> ""]
              /\ unit.instanceId \in DOMAIN StoredUnits(ev.ctx.user)
              /\ StoredUnits(ev.ctx.user)[unit.instanceId] = unit

\* A unit has been created for a user who had a profile and a wallet and no
\* inventory record.
C5_Witness ==
    /\ Succeeded("rpc_create_unit")
    /\ ev.in = CreateUnitValid
    /\ ev.writes = <<"inventory">>
    /\ DOMAIN StoredUnits(U1) = {ev.body.unit.instanceId}

\* An error response other than a failed storage call.
PreconditionFailed == ev.op # "none" /\ ev.code # 0 /\ ev.msg \notin StorageFailures

\* The errors a handler reports after ensureProfileAndWallet has returned.
AfterLoadErrors == {"unit_not_found", "item_not_found", "item_slot_mismatch"}

\* C6 as stated: a call that returns a precondition error has written no
\* record at all.
C6_NoWriteOnError == PreconditionFailed => ev.writes = <<>>

\* C6 amended: a call that returns a precondition error has not written the
\* inventory record; one turned down before the load step has written
\* nothing; unit_not_found, item_not_found and item_slot_mismatch come after
\* the load step, of a request that passed the checks before it, and the
\* call may by then have written the profile and the wallet record.
C6_ErrorWrites ==
    PreconditionFailed =>
        /\ Range(ev.writes) \subseteq {"profile", "wallet"}
        /\ ev.msg \notin AfterLoadErrors => ~ev.loaded /\ ev.writes = <<>>
        /\ ev.msg \in AfterLoadErrors =>
              /\ ev.loaded
              /\ ev.op \in {"rpc_equip_item", "rpc_compute_final_stats"}
              /\ ev.ctx.user # NoUser
              /\ ev.in.text = "json"
              /\ ev.in.unitInstanceId # ""
              /\ ev.op = "rpc_equip_item" => ev.in.slotName \in SlotNames

\* A call of a new user fails on an unknown unit after it has written the
\* user's profile and wallet.
C6_Witness ==
    /\ PreconditionFailed
    /\ ev.msg = "unit_not_found"
    /\ ev.writes = <<"profile", "wallet">>
    /\ profileStore[ev.target] # <<>> /\ walletStore[ev.target] # <<>>

\* C7: a call one of whose storage reads failed returns a failure and has
\* written nothing, so that every unit and item a call has returned stays in
\* the stored inventory of its user.
C7_ReadFailureSurfaced ==
    /\ ev.op # "none" /\ ev.readFailed => ev.code # 0 /\ ev.writes = <<>>
    /\ \A c \in created :
          c.id \in DOMAIN (IF c.kind = "unit" THEN StoredUnits(c.user)
                           ELSE StoredItems(c.user))

\* A record that exists stays as it is.
Kept(store) == \A u \in UserIds : store[u] # <<>> => store'[u] = store[u]

\* The response of a call whose load step failed.
LoadFailed == ev.op # "none" /\ ev.msg \in {"failed_to_load_state", "failed_to_load_inventory"}

\* C8: under overlapping calls a profile and a wallet that exist are never
\* written again, and what get_state returns is what is stored.
C8_BootstrapOnce ==
    /\ [][Kept(profileStore) /\ Kept(walletStore)]_vars
    /\ [](Succeeded("rpc_get_state") =>
            /\ profileStore[ev.target] = <<ev.body.profile>>
            /\ walletStore[ev.target] = <<ev.body.wallet>>)

\* Of two overlapping first calls of a user, which both read no profile, the
\* later one had its profile write turned down: it returns a load failure and
\* the stored profile is the one the other call wrote.
C8_Witness ==
    /\ LoadFailed /\ ~ev.readFailed
    /\ ev.writes = <<>>
    /\ profileStore[ev.target] # <<>>
    /\ \E p \in Procs : pc[p] # "idle" /\ call[p].writes # <<>>

\* C9: when calls follow one another, a profile and a wallet that exist are
\* never written again, whatever username a later call supplies and whether
\* or not its reads fail; a call that read the profile and the wallet wrote
\* neither; and get_state returns the stored profile and a wallet without gold.
C9_SequentialIdempotence ==
    /\ [][Kept(profileStore) /\ Kept(walletStore)]_vars
    /\ [](\A p \in Procs : pc[p] = "finish" =>
            /\ call[p].profileJSON # <<>> => "profile" \notin Range(call[p].writes)
            /\ call[p].walletJSON # <<>> => "wallet" \notin Range(call[p].writes))
    /\ [](Succeeded("rpc_get_state") =>
            /\ profileStore[ev.target] = <<ev.body.profile>>
            /\ ev.body.wallet = [gold |-> 0])

\* A second call, get_state with a session username, has written nothing and
\* returned the profile the first call stored under the derived name.
C9_Witness ==
    /\ Succeeded("rpc_get_state")
    /\ ncalls = 2
    /\ ev.ctx.username = Nick
    /\ ev.writes = <<>>
    /\ ev.body.profile.username = DefaultUsername(U1, <<>>)
    /\ ev.body.wallet = [gold |-> 0]

\* The inventory a returned call had loaded.
Loaded(e) == LoadInventory(e.inventoryJSON)

\* C10: of two overlapping create_unit calls of one user that both read the
\* same inventory, the later one to write also returns its unit, and the
\* stored inventory is then the one it read with its unit added, the unit of
\* the earlier call lost.  Stated of a call that read no inventory record, on
\* a store without transient errors.
C10_LastWriteWins ==
    ev.op = "rpc_create_unit" /\ ev.loaded /\ ev.inventoryJSON = <<>> =>
        /\ ev.code = 0
        /\ Stored(ev.target) =
              [Loaded(ev) EXCEPT
                 !.units = MapPut(@, ev.body.unit.instanceId, ev.body.unit)]

\* A create_unit request that passes every check before the rarity check.
CreateReachesRarity ==
    /\ Returns("rpc_create_unit")
    /\ ev.ctx.user # NoUser
    /\ ev.in.templateId # ""

\* An equip_item request that passes every check before the slot-name check.
EquipReachesSlotName ==
    /\ Returns("rpc_equip_item")
    /\ ev.ctx.user # NoUser
    /\ ev.in.unitInstanceId # "" /\ ev.in.slotName # ""

\* A grant_item request that passes the admin and target checks and names a
\* template.
GrantReachesEnums ==
    /\ Returns("rpc_grant_item")
    /\ adminSecret # "" /\ ev.in.adminSecret = adminSecret
    /\ ev.in.targetUserId # NoUser \/ ev.ctx.user # NoUser
    /\ ev.in.templateId # ""

InvalidArgumentNoWrite(msg) ==
    ev.code = CodeInvalidArg /\ ev.msg = msg /\ ev.writes = <<>> /\ ~ev.loaded

\* C11: a rarity outside the 6 rarities (create_unit, grant_item), an item
\* slot outside Weapon, Armor, Relic (grant_item) and a slot name outside
\* weapon, armor, relic (equip_item), in a request that passes the checks
\* before it, are turned down as an invalid argument before any storage call;
\* the comparison is exact, letter case included.
C11_EnumsRejected ==
    /\ CreateReachesRarity /\ ev.in.rarity \notin Range(AllowedRarities) =>
          InvalidArgumentNoWrite("invalid_rarity")
    /\ GrantReachesEnums /\ (ev.in.rarity \notin Range(AllowedRarities)
                             \/ ev.in.slot \notin Range(AllowedSlots)) =>
          InvalidArgumentNoWrite("missing_or_invalid_templateId_rarity_or_slot")
    /\ EquipReachesSlotName /\ ev.in.slotName \notin SlotNames =>
          InvalidArgumentNoWrite("slotName must be weapon, armor, or relic")

\* grant_item with item slot "weapon" is turned down for a user who has
\* records, which stay as they were.
C11_Witness ==
    /\ GrantReachesEnums
    /\ ev.in.slot = "weapon"
    /\ ev.code = CodeInvalidArg
    /\ profileStore[U1] # <<>> /\ inventoryStore[U1] # <<>>

\* The item slot that goes with a slot name: weapon-Weapon, armor-Armor,
\* relic-Relic.
Counterpart(slotName) ==
    AllowedSlots[CHOOSE i \in 1..Len(EquipmentSlotKeys) : EquipmentSlotKeys[i] = slotName]

\* A returned equip_item call that went past the unit lookup: an
\* authenticated caller, a valid slot name, the load step done without a
\* failed read or a refused write, and the unit in the inventory the call
\* loaded.
EquipOnStoredUnit ==
    /\ Returns("rpc_equip_item")
    /\ ev.ctx.user # NoUser
    /\ ev.loaded /\ ~ev.readFailed /\ ~LoadFailed
    /\ ev.in.slotName \in SlotNames
    /\ ev.in.unitInstanceId \in DOMAIN Loaded(ev).units

\* C12: equip_item that names a stored unit, a valid slot name and a stored
\* item whose slot is not the counterpart of the slot name is turned down as
\* an invalid argument (item_slot_mismatch); the call has not written the
\* inventory, and the stored inventory is the one it read.
C12_MismatchRejected ==
    /\ EquipOnStoredUnit
    /\ Deref(ev.in.itemInstanceId) \in DOMAIN StoredItems(ev.ctx.user)
    /\ StoredItems(ev.ctx.user)[Deref(ev.in.itemInstanceId)].slot
          # Counterpart(ev.in.slotName)
    => /\ ev.code = CodeInvalidArg
       /\ ev.msg = "item_slot_mismatch"
       /\ "inventory" \notin Range(ev.writes)
       /\ inventoryStore[ev.ctx.user] = ev.inventoryJSON

\* A Weapon item is turned down for the armor slot of a unit, whose slots
\* stay empty.
C12_Witness ==
    /\ EquipOnStoredUnit
    /\ ev.msg = "item_slot_mismatch"
    /\ ev.in.slotName = "armor"
    /\ StoredItems(ev.ctx.user)[Deref(ev.in.itemInstanceId)].slot = "Weapon"
    /\ StoredUnits(ev.ctx.user)[ev.in.unitInstanceId].equipment
          = [weapon |-> "", armor |-> "", relic |-> ""]

\* ------------------------------------------- grant, equip, compute, unequip

\* What the log keeps of a returned call: a successful equip_item with the
\* value the slot held in the inventory the call loaded, and a successful
\* compute_final_stats with the finalStats it returned.
Noted(e) ==
    IF e.op = "rpc_equip_item" /\ e.code = 0
    THEN <<[op |-> "equip", unit |-> e.in.unitInstanceId, slot |-> e.in.slotName,
            item |-> Deref(e.in.itemInstanceId),
            prior |-> Loaded(e).units[e.in.unitInstanceId].equipment[e.in.slotName]]>>
    ELSE IF e.op = "rpc_compute_final_stats" /\ e.code = 0
    THEN <<[op |-> "compute", unit |-> e.in.unitInstanceId,
            finalStats |-> e.body.finalStats]>>
    ELSE <<>>

Record == log' = IF ev'.op = "none" THEN log ELSE log \o Noted(ev')

\* An Armor item with bonuses on two stats.
GrantArmor ==
    [GrantItemValid EXCEPT !.templateId = "plate_01", !.slot = "Armor",
                           !.bonuses = [melee |-> 2, hp_max |-> 5], !.passive = ""]

\* One unit, Weapon and Armor items, the weapon slot set, reset and cleared,
\* the armor slot set.
PlayRequests ==
    {Request("rpc_create_unit", Caller(U1), CreateUnitValid),
     Request("rpc_grant_item", Caller(U1), GrantItemValid),
     Request("rpc_grant_item", Caller(U1), GrantArmor),
     Request("rpc_compute_final_stats", Caller(U1),
             [text |-> "json", unitInstanceId |-> "id1"])}
    \cup {Request("rpc_equip_item", Caller(U1),
                  [text |-> "json", unitInstanceId |-> "id1", slotName |-> "weapon",
                   itemInstanceId |-> i]) : i \in {<<>>, <<"id2">>, <<"id3">>}}
    \cup {Request("rpc_equip_item", Caller(U1),
                  [text |-> "json", unitInstanceId |-> "id1", slotName |-> "armor",
                   itemInstanceId |-> <<"id3">>])}

InitPlay == Init /\ adminSecret = "s3cret"

\* One client of a store that does not fail, its calls following one another.
NextPlay ==
    \/ \E req \in PlayRequests : ncalls < MaxPlayCalls /\ Begin(1, req) /\ Record
    \/ ReadProfile(1, Reliable) /\ Record
    \/ ReadWallet(1, Reliable) /\ Record
    \/ ReadInventory(1, Reliable) /\ Record
    \/ WriteProfile(1, Reliable) /\ Record
    \/ WriteWallet(1, Reliable) /\ Record
    \/ CreateUnit(1, Reliable) /\ Record
    \/ GrantItem(1, Reliable) /\ Record
    \/ EquipItem(1, Reliable) /\ Record
    \/ ComputeFinalStats(1) /\ Record

SpecPlay == InitPlay /\ [][NextPlay]_vars

\* C13: equip_item with itemInstanceId null, a stored unit and a valid slot
\* name succeeds (the store meeting no transient error); the slot of the
\* stored unit is then "", whatever it held, and the returned unit is the
\* stored one.
C13_NullClearsSlot ==
    EquipOnStoredUnit /\ ev.in.itemInstanceId = <<>> =>
        /\ ev.code = 0
        /\ StoredUnits(ev.ctx.user)[ev.in.unitInstanceId].equipment[ev.in.slotName] = ""
        /\ ev.body.unit.equipment[ev.in.slotName] = ""
        /\ ev.body.unit = StoredUnits(ev.ctx.user)[ev.in.unitInstanceId]

\* ------------------------------------------------------ stat aggregation

StatsB == [hp_max |-> 80, stamina_max |-> 0, mana_max |-> 15, melee |-> -4,
           ranged |-> 7, magic |-> 30, maneuver |-> 1]

\* Items as rpcGrantItem stores them.
Sword == NewItem("id2", GrantItemValid, 1)
Plate == NewItem("id3", GrantArmor, 2)

\* Inventories the store may hold for a user: one unit and two items; each
\* slot of the unit is empty, names the item of its kind, or names an id
\* ("id9") that the items map lacks.
StatsInventories ==
    {[items |-> [id \in {"id2", "id3"} |-> IF id = "id2" THEN Sword ELSE Plate],
      units |-> [id \in {"id1"} |->
                   [NewUnit("id1", [CreateUnitValid EXCEPT !.stats = st])
                       EXCEPT !.equipment = [weapon |-> w, armor |-> a, relic |-> r]]]] :
        st \in {StatsA, StatsB}, w \in {"", "id2", "id9"}, a \in {"", "id3", "id9"},
        r \in {"", "id9"}}

\* The store holds an inventory record of user-0001, and maybe no profile or
\* wallet.
InitStats ==
    /\ adminSecret = "s3cret"
    /\ pc = [p \in Procs |-> "idle"]
    /\ call = [p \in Procs |-> Idle]
    /\ nextId = 4
    /\ ncalls = 3
    /\ created = {}
    /\ ev = NoEv
    /\ log = <<>>
    /\ \E inv \in StatsInventories, hasProfile \in BOOLEAN, hasWallet \in BOOLEAN :
         /\ inventoryStore = [u \in UserIds |->
                IF u = U1 THEN <<MarshalInventory(inv)>> ELSE <<>>]
         /\ profileStore = [u \in UserIds |->
                IF u = U1 /\ hasProfile THEN <<NewProfile(U1, Nick, 0)>> ELSE <<>>]
         /\ walletStore = [u \in UserIds |->
                IF u = U1 /\ hasWallet THEN <<NewWallet>> ELSE <<>>]

StatsRequests ==
    {Request("rpc_compute_final_stats", Caller(U1),
             [text |-> "json", unitInstanceId |-> id]) : id \in {"id1", "id2"}}

\* compute_final_stats called on a stored inventory.
NextStats ==
    \/ \E req \in StatsRequests :
         ncalls < 3 + MaxStatsCalls /\ Begin(1, req) /\ UNCHANGED log
    \/ ReadProfile(1, Reliable) /\ UNCHANGED log
    \/ ReadWallet(1, Reliable) /\ UNCHANGED log
    \/ ReadInventory(1, Reliable) /\ UNCHANGED log
    \/ WriteProfile(1, Reliable) /\ UNCHANGED log
    \/ WriteWallet(1, Reliable) /\ UNCHANGED log
    \/ ComputeFinalStats(1) /\ UNCHANGED log

SpecStats == InitStats /\ [][NextStats]_vars

RECURSIVE Sum(_, _)
\* The sum of f over the set S.
Sum(f, S) ==
    IF S = {} THEN 0
    ELSE LET x == CHOOSE x \in S : TRUE IN f[x] + Sum(f, S \ {x})

\* The slots of a unit that name an item of the inventory.
Equipped(inv, unit) ==
    {s \in DOMAIN unit.equipment :
        unit.equipment[s] # "" /\ unit.equipment[s] \in DOMAIN inv.items}

\* bonuses[k] of the item in slot s, 0 when the item has no such bonus.
BonusOf(inv, unit, s, k) == StatOf(inv.items[unit.equipment[s]].bonuses, k)

\* C14: compute_final_stats of a stored unit succeeds (no storage call
\* failing) and returns the unit's stats as baseStats and, as finalStats,
\* exactly the 7 canonical keys, each holding the unit's stat plus the sum of
\* that bonus over the slots that name an item of the inventory; a slot that
\* names no item of the inventory adds nothing and raises no error.
C14_FinalStatsSum ==
    /\ Returns("rpc_compute_final_stats")
    /\ ev.ctx.user # NoUser /\ ~ev.readFailed /\ ev.msg \notin StorageFailures
    /\ ev.in.unitInstanceId \in DOMAIN StoredUnits(ev.ctx.user)
    => LET inv == Stored(ev.ctx.user)
           unit == inv.units[ev.in.unitInstanceId]
       IN  /\ ev.code = 0
           /\ ev.body.baseStats = unit.stats
           /\ DOMAIN ev.body.finalStats = StatKeys
           /\ \A k \in StatKeys :
                 ev.body.finalStats[k] =
                    unit.stats[k]
                      + Sum([s \in Equipped(inv, unit) |-> BonusOf(inv, unit, s, k)],
                            Equipped(inv, unit))

\* melee 10 with bonuses 3 and 2 gives 15, hp_max 100 with bonus 5 gives 105,
\* and the relic slot names an item the inventory lacks.
C14_Witness ==
    /\ Succeeded("rpc_compute_final_stats")
    /\ ev.body.baseStats = StatsA
    /\ ev.body.finalStats.melee = 15
    /\ ev.body.finalStats.hp_max = 105
    /\ StoredUnits(U1)["id1"].equipment = [weapon |-> "id2", armor |-> "id3", relic |-> "id9"]

\* ------------------------------------------------------------- round trip

\* Entries i, i+1, i+2 of the log: compute_final_stats of a unit, an equip of
\* an item into a slot of that unit, compute_final_stats of the unit again.
ComputeEquipCompute(i) ==
    /\ i + 2 <= Len(log)
    /\ log[i].op = "compute" /\ log[i + 1].op = "equip" /\ log[i + 2].op = "compute"
    /\ log[i + 1].item # ""
    /\ log[i].unit = log[i + 1].unit /\ log[i + 2].unit = log[i].unit

\* Entries i+3, i+4: the slot is cleared and the unit computed once more.
ThenClearCompute(i) ==
    /\ i + 4 <= Len(log)
    /\ log[i + 3].op = "equip" /\ log[i + 4].op = "compute"
    /\ log[i + 3].item = ""
    /\ log[i + 3].unit = log[i].unit /\ log[i + 3].slot = log[i + 1].slot
    /\ log[i + 4].unit = log[i].unit

\* The second result is the first plus the bonuses of the item, key by key.
PlusBonuses(i) ==
    \A k \in StatKeys :
        log[i + 2].finalStats[k] =
            log[i].finalStats[k] + StatOf(StoredItems(U1)[log[i + 1].item].bonuses, k)

\* C15: when compute_final_stats of a unit, a successful equip_item of a
\* stored item into a slot of that unit and compute_final_stats of the unit
\* succeed in a row, the second finalStats are the first plus the item's
\* bonuses, key by key; when the slot is then cleared and the unit computed
\* again, the finalStats are those returned before the equip.
C15_RoundTrip ==
    \A i \in 1..Len(log) :
        ComputeEquipCompute(i) =>
            /\ PlusBonuses(i)
            /\ ThenClearCompute(i) => log[i + 4].finalStats = log[i].finalStats

\* C16: after a successful call the profile, the wallet and the inventory
\* record of the user it touched are all in the store; after get_state of a
\* user without units and items the stored inventory is the empty inventory.
C16_RecordsExist ==
    ev.op # "none" /\ ev.code = 0 =>
        /\ profileStore[ev.target] # <<>>
        /\ walletStore[ev.target] # <<>>
        /\ inventoryStore[ev.target] # <<>>
        /\ Succeeded("rpc_get_state") /\ ev.body.units = <<>>
              /\ ev.body.inventorySummary.itemsCount = 0
           => inventoryStore[ev.target] = <<MarshalInventory(initInventory)>>

\* C16 amended: after a successful call the profile and the wallet of the
\* user it touched are in the store; the inventory record is in the store
\* after a successful create_unit, grant_item, equip_item or
\* compute_final_stats; get_state writes no inventory record, and when the
\* user has none it reports the empty inventory and leaves the record absent.
C16_RecordsAfterSuccess ==
    ev.op # "none" /\ ev.code = 0 =>
        /\ profileStore[ev.target] # <<>>
        /\ walletStore[ev.target] # <<>>
        /\ ev.op # "rpc_get_state" => inventoryStore[ev.target] # <<>>
        /\ ev.op = "rpc_get_state" =>
              /\ "inventory" \notin Range(ev.writes)
              /\ ev.inventoryJSON = <<>> /\ ~ev.readFailed =>
                    /\ inventoryStore[ev.target] = <<>>
                    /\ ev.body.units = <<>>
                    /\ ev.body.inventorySummary = [itemsCount |-> 0, unitsCount |-> 0]

\* The first get_state of a user has written the profile and the wallet and
\* returned; the user has no inventory record.
C16_Witness ==
    /\ Succeeded("rpc_get_state")
    /\ ev.writes = <<"profile", "wallet">>
    /\ profileStore[ev.target] # <<>> /\ walletStore[ev.target] # <<>>
    /\ inventoryStore[ev.target] = <<>>

\* The operations that ask for the caller's identity first.
CallerOps ==
    {"rpc_get_state", "rpc_create_unit", "rpc_equip_item", "rpc_compute_final_stats"}

\* A returned call of one of them that carried no caller identity.
NoCallerIdentity == ev.op \in CallerOps /\ ev.ctx.user = NoUser

\* A returned grant_item call, its payload parsed, that fails the admin check.
AdminCheckFails ==
    /\ Returns("rpc_grant_item")
    /\ adminSecret = "" \/ ev.in.adminSecret # adminSecret

\* C17 as stated: a call without caller identity fails in a category other
\* than the one of a failed admin check (PermissionDenied), and writes nothing.
C17_UnauthenticatedDistinct ==
    NoCallerIdentity =>
        /\ ev.code # 0
        /\ ev.code # CodePermission
        /\ ev.writes = <<>>

\* C17 amended: a call without caller identity fails with PermissionDenied
\* and the reason user_id_required before any storage call; a failed admin
\* check fails with PermissionDenied too, under the reason admin_only.
C17_NoCallerPermissionDenied ==
    /\ NoCallerIdentity =>
          /\ ev.code = CodePermission
          /\ ev.msg = "user_id_required"
          /\ ev.writes = <<>> /\ ~ev.loaded
    /\ AdminCheckFails =>
          /\ ev.code = CodePermission
          /\ ev.msg = "admin_only"

\* create_unit with a valid payload and no caller identity is turned down
\* with PermissionDenied.
C17_Witness ==
    /\ NoCallerIdentity
    /\ ev.op = "rpc_create_unit" /\ ev.in = CreateUnitValid
    /\ ev.code = CodePermission /\ ev.msg = "user_id_required"

\* C18: grant_item whose adminSecret differs from the server's ADMIN_SECRET,
\* or called on a server whose ADMIN_SECRET is unset or empty, is turned down
\* with PermissionDenied (admin_only) before any storage call, whoever calls
\* and whatever target, templateId, rarity, slot and bonuses it carries.
C18_AdminOnly ==
    AdminCheckFails =>
        /\ ev.code = CodePermission
        /\ ev.msg = "admin_only"
        /\ ev.writes = <<>> /\ ~ev.loaded

\* A wrong secret is turned down although the request also lacks a caller, a
\* target and a templateId.
C18_Witness ==
    /\ AdminCheckFails
    /\ adminSecret = "s3cret" /\ ev.in.adminSecret = "guess"
    /\ ev.ctx.user = NoUser /\ ev.in.targetUserId = NoUser /\ ev.in.templateId = ""
    /\ ev.code = CodePermission

\* The records of a user.
Records(u) == <<profileStore[u], walletStore[u], inventoryStore[u]>>

\* The user a grant_item request is for.
GrantTarget(e) == IF e.in.targetUserId # NoUser THEN e.in.targetUserId ELSE e.ctx.user

\* The step in which a grant_item call, none of whose reads failed, returns
\* success: the stored inventory of the target gains one item under a new id,
\* with the fields of the payload, and nothing else of it changes.
GrantInsertsOne ==
    ev'.op = "rpc_grant_item" /\ ev'.code = 0 /\ ~ev'.readFailed =>
        LET item == ev'.body.item
            t == GrantTarget(ev')
        IN  /\ ev'.target = t
            /\ item.instanceId \notin DOMAIN StoredItems(t)
            /\ inventoryStore'[t] =
                  <<MarshalInventory([Stored(t) EXCEPT
                        !.items = MapPut(@, item.instanceId, item)])>>
            /\ item.templateId = ev'.in.templateId
            /\ item.rarity = ev'.in.rarity
            /\ item.slot = ev'.in.slot
            /\ item.bonuses = IF IsNil(ev'.in.bonuses) THEN EmptyMap ELSE ev'.in.bonuses
            /\ item.passive = ev'.in.passive

\* A step of a grant_item call changes no record of a user other than its
\* target.
GrantTouchesTargetOnly ==
    pc[1] # "idle" /\ call[1].op = "rpc_grant_item" =>
        \A u \in UserIds \ {call[1].target} : Records(u)' = Records(u)

\* C19: a successful grant_item (its reads succeeding) inserts exactly one
\* new item, with the submitted templateId, rarity, slot, bonuses and passive,
\* into the stored inventory of targetUserId, or of the caller when none is
\* given; no step of the call changes a record of another user.
C19_GrantFrame == [][GrantInsertsOne /\ GrantTouchesTargetOnly]_vars

\* user-0001, who has records, has granted an item to bob: the item is in
\* bob's inventory.
C19_Witness ==
    /\ Succeeded("rpc_grant_item")
    /\ ev.ctx.user = U1 /\ ev.in.targetUserId = U2
    /\ ev.body.item.instanceId \in DOMAIN StoredItems(U2)
    /\ ev.body.item.passive = "Life steal"
    /\ profileStore[U1] # <<>> /\ inventoryStore[U1] # <<>>
    /\ ev.body.item.instanceId \notin DOMAIN StoredItems(U1)

\* A returned grant_item call that passed the admin check and carried no
\* caller identity.
GrantWithoutCaller ==
    /\ Returns("rpc_grant_item")
    /\ adminSecret # "" /\ ev.in.adminSecret = adminSecret
    /\ ev.ctx.user = NoUser

\* C20: with the right secret and no caller identity, grant_item with a
\* targetUserId and valid fields succeeds (no storage call failing), having
\* written the target's profile and wallet if it had none; without a
\* targetUserId it is turned down as an invalid argument before any storage
\* call.  Every other operation called without identity fails and writes
\* nothing.
C20_TargetWithoutCaller ==
    /\ GrantWithoutCaller /\ ev.in.targetUserId # NoUser
       /\ ev.in.templateId # "" /\ ev.in.rarity \in Range(AllowedRarities)
       /\ ev.in.slot \in Range(AllowedSlots) /\ Keys(ev.in.bonuses) \subseteq StatKeys
       => \/ ev.code # 0 /\ ev.msg \in StorageFailures
          \/ /\ ev.code = 0
             /\ ev.target = ev.in.targetUserId
             /\ profileStore[ev.target] # <<>> /\ walletStore[ev.target] # <<>>
             /\ ev.body.item.instanceId \in DOMAIN StoredItems(ev.target)
    /\ GrantWithoutCaller /\ ev.in.targetUserId = NoUser =>
          /\ ev.code = CodeInvalidArg
          /\ ev.msg = "targetUserId_required_when_not_authenticated"
          /\ ev.writes = <<>> /\ ~ev.loaded
    /\ NoCallerIdentity => ev.code # 0 /\ ev.writes = <<>> /\ ~ev.loaded

\* An item is granted to bob, who had no records, by a call without caller
\* identity: the call wrote bob's profile, wallet and inventory.
C20_Witness ==
    /\ GrantWithoutCaller
    /\ ev.code = 0
    /\ ev.in.targetUserId = U2
    /\ ev.writes = <<"profile", "wallet", "inventory">>
    /\ Cardinality(DOMAIN StoredItems(U2)) = 1

\* ------------------------------------------------------------------ wallet

\* Gold a wallet record may hold before the first call: the module never
\* changes it, an economy feature outside the module may have set it.
GoldAmounts == {0, 250}

\* An inventory record of two units and a sword.
WalletInventory ==
    [items |-> [id \in {"id2"} |-> Sword],
     units |-> [id \in {"id1", "id3"} |->
                  NewUnit(id, [CreateUnitValid EXCEPT
                                  !.stats = IF id = "id1" THEN StatsA ELSE StatsB])]]

\* The records user-0001 has in the store when the calls begin: a profile or
\* none, a wallet with gold or none, that inventory or none.
InitWallet ==
    /\ adminSecret = "s3cret"
    /\ pc = [p \in Procs |-> "idle"]
    /\ call = [p \in Procs |-> Idle]
    /\ ncalls = 0
    /\ created = {}
    /\ ev = NoEv
    /\ log = <<>>
    /\ \E hasProfile, hasInventory \in BOOLEAN,
          w \in {<<>>} \cup {<<[gold |-> g]>> : g \in GoldAmounts} :
         /\ profileStore = [u \in UserIds |->
                IF u = U1 /\ hasProfile THEN <<NewProfile(U1, Nick, 0)>> ELSE <<>>]
         /\ walletStore = [u \in UserIds |-> IF u = U1 THEN w ELSE <<>>]
         /\ inventoryStore = [u \in UserIds |->
                IF u = U1 /\ hasInventory
                THEN <<MarshalInventory(WalletInventory)>> ELSE <<>>]
         /\ nextId = IF hasInventory THEN 4 ELSE 1

\* The five operations, called by user-0001, a grant to bob, and an equip
\* that names an item no inventory holds.
WalletRequests ==
    {Request("rpc_get_state", Caller(U1), EmptyObject),
     Request("rpc_create_unit", Caller(U1), CreateUnitValid),
     Request("rpc_grant_item", Caller(U1), GrantItemValid),
     Request("rpc_grant_item", Caller(U1), [GrantItemValid EXCEPT !.targetUserId = U2])}
    \cup {Request("rpc_equip_item", Caller(U1),
                  [text |-> "json", unitInstanceId |-> "id1", slotName |-> "weapon",
                   itemInstanceId |-> <<i>>]) : i \in {"id2", "id5"}}
    \cup {Request("rpc_compute_final_stats", Caller(U1),
                  [text |-> "json", unitInstanceId |-> "id1"])}

\* One client of a store that does not fail, its calls following one another.
NextWallet ==
    \/ \E req \in WalletRequests :
         ncalls < MaxWalletCalls /\ Begin(1, req) /\ UNCHANGED log
    \/ Step(1, Reliable) /\ UNCHANGED log

SpecWallet == InitWallet /\ [][NextWallet]_vars

\* C21: storage calls succeeding, a wallet record that exists is never
\* written again, so that it keeps its gold through every call of the five
\* operations; get_state succeeds and returns the stored wallet; and a wallet
\* the load step creates has gold 0.
C21_WalletKept ==
    /\ [](ev.op = "rpc_get_state" =>
             ev.code = 0 /\ <<ev.body.wallet>> = walletStore[ev.target])
    /\ [][\A u \in UserIds :
            /\ walletStore[u] # <<>> => walletStore'[u] = walletStore[u]
            /\ walletStore[u] = <<>> /\ walletStore'[u] # <<>> =>
                  walletStore'[u] = <<[gold |-> 0]>>]_vars

\* After a create_unit of a user whose wallet holds 250 gold, get_state
\* returns 250 gold with the unit and the stored wallet holds it.
C21_Witness ==
    /\ Succeeded("rpc_get_state")
    /\ ev.body.wallet.gold = 250
    /\ walletStore[U1] = <<[gold |-> 250]>>
    /\ ev.body.inventorySummary.unitsCount = 1
    /\ created # {}

\* ---------------------------------------------------------------- growth

\* The fields of a unit that no operation changes.
UnitIdentity(unit) ==
    [instanceId |-> unit.instanceId, templateId |-> unit.templateId,
     rarity |-> unit.rarity, stats |-> unit.stats]

\* C22: calls following one another, storage calls succeeding and the ids
\* new: no step takes an item or a unit out of a stored inventory, and every
\* stored item, and the instanceId, templateId, rarity and stats of every
\* stored unit, stay what they were.
C22_InventoryGrows ==
    [][\A u \in UserIds :
         /\ DOMAIN StoredItems(u) \subseteq DOMAIN StoredItems(u)'
         /\ DOMAIN StoredUnits(u) \subseteq DOMAIN StoredUnits(u)'
         /\ \A id \in DOMAIN StoredItems(u) : StoredItems(u)'[id] = StoredItems(u)[id]
         /\ \A id \in DOMAIN StoredUnits(u) :
               UnitIdentity(StoredUnits(u)'[id]) = UnitIdentity(StoredUnits(u)[id])]_vars

\* A unit created first is stored with the fields it was created with after
\* a grant_item that followed it was turned down at the save, and
\* compute_final_stats finds it.
C22_Witness ==
    /\ Succeeded("rpc_compute_final_stats")
    /\ ncalls = 4
    /\ DOMAIN StoredUnits(U1) = {"id1"}
    /\ UnitIdentity(StoredUnits(U1)["id1"]) = UnitIdentity(NewUnit("id1", CreateUnitValid))
    /\ nextId = 3

\* --------------------------------------------------------------- get_state

\* A returned get_state call of a user who had no record when it began.
BrandNew == ev.writes = <<"profile", "wallet">> /\ ev.inventoryJSON = <<>>

\* C23: get_state of an authenticated user (storage calls succeeding)
\* succeeds and returns the stored profile and wallet, the numbers of items
\* and of units of the stored inventory, and a list of unitsCount units that
\* holds every stored unit once; for a user without records it returns gold
\* 0, both counts 0 and the empty list.
C23_GetStateReturnsStored ==
    /\ ev.op = "rpc_get_state" /\ ev.ctx.user # NoUser => ev.code = 0
    /\ Succeeded("rpc_get_state") =>
          LET units == ev.body.units
              summary == ev.body.inventorySummary
          IN  /\ ev.target = ev.ctx.user
              /\ <<ev.body.profile>> = profileStore[ev.target]
              /\ <<ev.body.wallet>> = walletStore[ev.target]
              /\ summary.itemsCount = Cardinality(DOMAIN StoredItems(ev.target))
              /\ summary.unitsCount = Cardinality(DOMAIN StoredUnits(ev.target))
              /\ Len(units) = summary.unitsCount
              /\ \A id \in DOMAIN StoredUnits(ev.target) :
                    Cardinality({i \in 1..Len(units) :
                                    units[i] = StoredUnits(ev.target)[id]}) = 1
              /\ BrandNew =>
                    /\ ev.body.wallet.gold = 0
                    /\ summary = [itemsCount |-> 0, unitsCount |-> 0]
                    /\ units = <<>>

\* get_state of a user with a profile, 250 gold and two units returns both
\* units.
C23_Witness ==
    /\ Succeeded("rpc_get_state")
    /\ ev.body.profile.username = Nick
    /\ ev.body.wallet.gold = 250
    /\ ev.body.inventorySummary.unitsCount = 2
    /\ ev.body.units[1] # ev.body.units[2]

\* -------------------------------------------------------------- pure reads

\* The operations that only read the inventory.
ReadOps == {"rpc_get_state", "rpc_compute_final_stats"}

\* A step of a get_state or compute_final_stats call: its arrival, one of its
\* storage calls, or its return.
StepOfReadOp ==
    \/ pc[1] # "idle" /\ call[1].op \in ReadOps
    \/ pc'[1] # "idle" /\ call'[1].op \in ReadOps
    \/ ev'.op \in ReadOps

\* C24: get_state and compute_final_stats never write the inventory record:
\* no step of such a call changes a stored inventory, and the call returns,
\* with success or with an error, without an inventory write.
C24_PureReads ==
    /\ [](ev.op \in ReadOps => "inventory" \notin Range(ev.writes))
    /\ [][StepOfReadOp => inventoryStore' = inventoryStore]_vars

\* compute_final_stats has returned unit_not_found for a user whose stored
\* inventory holds an item: the record is the one the call read.
C24_Witness ==
    /\ ev.op = "rpc_compute_final_stats"
    /\ ev.msg = "unit_not_found"
    /\ ~ev.readFailed
    /\ DOMAIN StoredItems(U1) # {}
    /\ inventoryStore[U1] = ev.inventoryJSON

\* --------------------------------------------------------- stats validation

\* A create_unit request that passes every check before the stats check.
CreateReachesStats == CreateReachesRarity /\ ev.in.rarity \in Range(AllowedRarities)

\* The reasons validateUnitStats gives.
StatsReasons ==
    {"stats must contain exactly the 7 allowed keys", "invalid stat key",
     "missing required stat"}

\* C25: validateUnitStats accepts the stats of a request exactly when their
\* key set is the set of the 7 canonical keys; create_unit turns every other
\* map down (a key missing, a key too many, an unknown key in place of a
\* canonical one, no stats, empty stats) as an invalid argument before any
\* storage call, and goes on to store the unit otherwise.
C25_StatsKeySetExact ==
    CreateReachesStats =>
        /\ validateUnitStats(ev.in.stats) = {NoError} <=> Keys(ev.in.stats) = StatKeys
        /\ NoError \in validateUnitStats(ev.in.stats) <=> Keys(ev.in.stats) = StatKeys
        /\ Keys(ev.in.stats) # StatKeys =>
              /\ ev.code = CodeInvalidArg
              /\ ev.msg \in StatsReasons
              /\ ev.writes = <<>> /\ ~ev.loaded
        /\ Keys(ev.in.stats) = StatKeys =>
              \/ ev.code # 0 /\ ev.msg \in StorageFailures
              \/ ev.code = 0 /\ ev.body.unit.instanceId \in DOMAIN StoredUnits(ev.ctx.user)

\* create_unit without the maneuver stat is turned down for a user who has a
\* unit, and the stored units are the ones the user had.
C25_Witness ==
    /\ CreateReachesStats
    /\ ev.in.stats = StatsMissing
    /\ ev.code = CodeInvalidArg
    /\ Cardinality(DOMAIN StoredUnits(U1)) = 1
    /\ \E c \in created : c.kind = "unit" /\ DOMAIN StoredUnits(U1) = {c.id}

\* The stats of a request have a key outside the canonical set, or lack a
\* canonical key.
StatsKeyWrong ==
    \/ \E k \in Keys(ev.in.stats) : k \notin StatKeys
    \/ \E k \in StatKeys : k \notin Keys(ev.in.stats)

\* C26: create_unit whose stats have a key outside the canonical set, or lack
\* a canonical key, is turned down with a reason that names such a key: a key
\* of the map outside the set, or a canonical key the map lacks.
C26_RejectionNamesKey ==
    CreateReachesStats /\ StatsKeyWrong =>
        /\ ev.code = CodeInvalidArg
        /\ \/ ev.key \in Keys(ev.in.stats) \ StatKeys
           \/ ev.key \in StatKeys \ Keys(ev.in.stats)

\* -------------------------------------------------------- iteration order

RECURSIVE AddBonuses(_, _, _)
\* The loop over item.Bonuses, its entries visited in the given order:
\* final[k] += v for every key that is an allowed stat.
AddBonuses(final, bonuses, order) ==
    IF order = <<>> THEN final
    ELSE LET k == Head(order)
         IN  AddBonuses(IF isAllowedStat(k) THEN [final EXCEPT ![k] = @ + bonuses[k]]
                        ELSE final,
                        bonuses, Tail(order))

RECURSIVE VisitSlots(_, _, _, _, _)
\* The loop over unit.Equipment, the slots visited in slotOrder and the
\* bonuses of the item with id i in entryOrder[i].
VisitSlots(final, inv, equipment, slotOrder, entryOrder) ==
    IF slotOrder = <<>> THEN final
    ELSE LET itemId == equipment[Head(slotOrder)]
             next == IF itemId = "" \/ itemId \notin DOMAIN inv.items THEN final
                     ELSE AddBonuses(final, inv.items[itemId].bonuses, entryOrder[itemId])
         IN  VisitSlots(next, inv, equipment, Tail(slotOrder), entryOrder)

\* Every way to visit the bonuses of every item of an inventory.
EntryOrders(inv) ==
    {f \in [DOMAIN inv.items ->
               UNION {Orders(Keys(inv.items[i].bonuses)) : i \in DOMAIN inv.items}] :
        \A i \in DOMAIN inv.items : f[i] \in Orders(Keys(inv.items[i].bonuses))}

\* C27: what compute_final_stats returns is fixed by the stored inventory and
\* the unit id: baseStats are the stored unit's stats, and finalStats are what
\* the loops give for every order of the three slots and every order of the
\* entries of each item's bonuses; so two calls on the same stored inventory
\* return the same baseStats and finalStats.
C27_OrderIrrelevant ==
    Succeeded("rpc_compute_final_stats") =>
        LET inv == Stored(ev.ctx.user)
            unit == inv.units[ev.in.unitInstanceId]
            base == [k \in StatKeys |-> StatOf(unit.stats, k)]
        IN  /\ ev.body.baseStats = unit.stats
            /\ \A slotOrder \in Orders(DOMAIN unit.equipment) :
                  \A entryOrder \in EntryOrders(inv) :
                     VisitSlots(base, inv, unit.equipment, slotOrder, entryOrder)
                        = ev.body.finalStats

\* The second call on an inventory whose unit holds the sword (melee 3) and
\* the plate (melee 2, hp_max 5) returns melee 5 above the base.
C27_Witness ==
    /\ Succeeded("rpc_compute_final_stats")
    /\ ncalls = 3 + MaxStatsCalls
    /\ StoredUnits(U1)["id1"].equipment.weapon = "id2"
    /\ StoredUnits(U1)["id1"].equipment.armor = "id3"
    /\ ev.body.finalStats.melee = ev.body.baseStats.melee + 5

\* --------------------------------------------------------------- not found

\* A returned equip_item or compute_final_stats call that went as far as
\* looking the unit up: every check before the load step passed and no
\* storage call failed the call.
ReachesUnitLookup ==
    /\ ev.op \in {"rpc_equip_item", "rpc_compute_final_stats"}
    /\ ev.in.text = "json"
    /\ ev.ctx.user # NoUser
    /\ ev.in.unitInstanceId # ""
    /\ ev.op = "rpc_equip_item" => ev.in.slotName \in SlotNames
    /\ ev.msg \notin StorageFailures

\* The call has not written the inventory, and the stored inventory is the
\* one it read.
InventoryUntouched ==
    /\ "inventory" \notin Range(ev.writes)
    /\ ~ev.readFailed => inventoryStore[ev.ctx.user] = ev.inventoryJSON

\* C28: equip_item and compute_final_stats that name a unit id the caller's
\* stored inventory lacks fail with NotFound (unit_not_found); equip_item that
\* names a stored unit and a non-empty item id the stored inventory lacks
\* fails with NotFound (item_not_found); the call writes no inventory and the
\* stored inventory is the one it read.
C28_NotFound ==
    /\ ReachesUnitLookup /\ ev.in.unitInstanceId \notin DOMAIN StoredUnits(ev.ctx.user) =>
          /\ ev.code = CodeNotFound
          /\ ev.msg = "unit_not_found"
          /\ InventoryUntouched
    /\ EquipOnStoredUnit /\ ~LoadFailed
       /\ Deref(ev.in.itemInstanceId) # ""
       /\ Deref(ev.in.itemInstanceId) \notin DOMAIN StoredItems(ev.ctx.user) =>
          /\ ev.code = CodeNotFound
          /\ ev.msg = "item_not_found"
          /\ InventoryUntouched

\* equip_item names a stored unit and an item id that is not in the items
\* map, which holds another item: item_not_found, the slot stays empty.
C28_Witness ==
    /\ EquipOnStoredUnit
    /\ ev.msg = "item_not_found" /\ ev.code = 5
    /\ DOMAIN StoredItems(ev.ctx.user) # {}
    /\ StoredUnits(ev.ctx.user)[ev.in.unitInstanceId].equipment[ev.in.slotName] = ""

\* ------------------------------------------------------- the inventory write

\* The operations that save the inventory.
WriteOps == {"rpc_create_unit", "rpc_grant_item", "rpc_equip_item"}

\* The number of inventory writes of a returned call.
InventoryWrites(e) == Cardinality({i \in 1..Len(e.writes) : e.writes[i] = "inventory"})

\* The inventory a successful call built from the one it had loaded.
Built(e) ==
    CASE e.op = "rpc_create_unit" ->
           [Loaded(e) EXCEPT !.units = MapPut(@, e.body.unit.instanceId, e.body.unit)]
      [] e.op = "rpc_grant_item" ->
           [Loaded(e) EXCEPT !.items = MapPut(@, e.body.item.instanceId, e.body.item)]
      [] e.op = "rpc_equip_item" ->
           [Loaded(e) EXCEPT !.units = MapPut(@, e.body.unit.instanceId, e.body.unit)]

\* The responses of a save the store turned down.
SaveFailures == {"failed_to_save_unit", "failed_to_save_item", "failed_to_save_equipment"}

\* C29: a call writes the inventory record at most once, as its last storage
\* call and only when it succeeds, every check and lookup having passed; a
\* successful create_unit, grant_item or equip_item has written it exactly
\* once; and the write replaces the record whatever the store holds: the
\* store meeting no transient error, no save is turned down, and the stored
\* record is then the inventory the call built from its own read.
C29_OneInventoryWrite ==
    ev.op # "none" =>
        /\ InventoryWrites(ev) <= 1
        /\ InventoryWrites(ev) = 1 =>
              /\ ev.code = 0 /\ ev.op \in WriteOps
              /\ ev.writes[Len(ev.writes)] = "inventory"
        /\ ev.code = 0 /\ ev.op \in WriteOps =>
              /\ InventoryWrites(ev) = 1
              /\ inventoryStore[ev.target] = <<MarshalInventory(Built(ev))>>
        /\ ev.msg \notin SaveFailures

\* ------------------------------------------------- referential integrity

\* An inventory record of a unit with empty slots, a Weapon item and an
\* Armor item.
RaceInventory ==
    [items |-> [id \in {"id2", "id3"} |-> IF id = "id2" THEN Sword ELSE Plate],
     units |-> [id \in {"id1"} |-> NewUnit("id1", CreateUnitValid)]]

\* C30: in every stored inventory, at every moment, a slot that is not ""
\* holds the id of an item of the items map of that inventory.
C30_ReferentialIntegrity ==
    \A u \in UserIds : \A id \in DOMAIN StoredUnits(u) :
        \A s \in DOMAIN StoredUnits(u)[id].equipment :
            StoredUnits(u)[id].equipment[s] # "" =>
                StoredUnits(u)[id].equipment[s] \in DOMAIN StoredItems(u)

\* ------------------------------------------------------- two units, one item

\* A JSON value of an equip_item payload: null or a string.
JsonNull == [kind |-> "null"]
JsonString(str) == [kind |-> "string", s |-> str]

\* json.Unmarshal into an EquipItemPayload: a string field the document
\* lacks is "", and the pointer field itemInstanceId is nil when the document
\* lacks it or holds null.
UnmarshalEquipItemPayload(j) ==
    [text |-> "json",
     unitInstanceId |-> IF "unitInstanceId" \in DOMAIN j THEN j.unitInstanceId ELSE "",
     slotName |-> IF "slotName" \in DOMAIN j THEN j.slotName ELSE "",
     itemInstanceId |->
        IF "itemInstanceId" \notin DOMAIN j THEN <<>>
        ELSE IF j.itemInstanceId.kind = "null" THEN <<>>
        ELSE <<j.itemInstanceId.s>>]

\* equip_item documents for the weapon slot of a unit: itemInstanceId
\* omitted, null, the empty string, or one of two Weapon items.
WeaponDocs(unit) ==
    {[unitInstanceId |-> unit, slotName |-> "weapon"]}
    \cup {[unitInstanceId |-> unit, slotName |-> "weapon", itemInstanceId |-> v] :
            v \in {JsonNull, JsonString(""), JsonString("id2"), JsonString("id5")}}

\* An inventory record of two units, two Weapon items and an Armor item; the
\* slots of the first unit are empty, the weapon slot of the second names the
\* sword.
ShareInventory ==
    LET axe == NewItem("id5", [GrantItemValid EXCEPT !.templateId = "axe_01",
                                  !.bonuses = [melee |-> 4, ranged |-> 1]], 5)
        first == NewUnit("id1", [CreateUnitValid EXCEPT !.stats = StatsA])
        second == NewUnit("id4", [CreateUnitValid EXCEPT !.stats = StatsB])
    IN  [items |-> [id \in {"id2", "id3", "id5"} |->
                      IF id = "id2" THEN Sword ELSE IF id = "id3" THEN Plate ELSE axe],
         units |-> [id \in {"id1", "id4"} |->
                      IF id = "id1" THEN first
                      ELSE [second EXCEPT !.equipment.weapon = "id2"]]]

\* The records user-0001 has in the store when the calls begin.
InitShare ==
    /\ adminSecret = "s3cret"
    /\ pc = [p \in Procs |-> "idle"]
    /\ call = [p \in Procs |-> Idle]
    /\ nextId = 6
    /\ ncalls = 5
    /\ created = {}
    /\ ev = NoEv
    /\ log = <<>>
    /\ profileStore = [u \in UserIds |-> IF u = U1 THEN <<NewProfile(U1, Nick, 0)>> ELSE <<>>]
    /\ walletStore = [u \in UserIds |-> IF u = U1 THEN <<NewWallet>> ELSE <<>>]
    /\ inventoryStore = [u \in UserIds |->
           IF u = U1 THEN <<MarshalInventory(ShareInventory)>> ELSE <<>>]

ShareRequests ==
    {Request("rpc_equip_item", Caller(U1), UnmarshalEquipItemPayload(j)) :
        j \in WeaponDocs("id1") \cup WeaponDocs("id4")
               \cup {[unitInstanceId |-> "id1", slotName |-> "armor",
                      itemInstanceId |-> JsonString(i)] : i \in {"id2", "id3"}}}
    \cup {Request("rpc_compute_final_stats", Caller(U1),
                  [text |-> "json", unitInstanceId |-> id]) : id \in {"id1", "id4"}}

\* One client of a store that does not fail equips, clears and computes.
NextShare ==
    \/ \E req \in ShareRequests : ncalls < 5 + MaxShareCalls /\ Begin(1, req) /\ Record
    \/ ReadProfile(1, Reliable) /\ Record
    \/ ReadWallet(1, Reliable) /\ Record
    \/ ReadInventory(1, Reliable) /\ Record
    \/ EquipItem(1, Reliable) /\ Record
    \/ ComputeFinalStats(1) /\ Record

SpecShare == InitShare /\ [][NextShare]_vars

\* C32: a successful equip_item has written the inventory and no other
\* record; in the stored inventory the items, every other unit, and the named
\* unit's instanceId, templateId, rarity, stats and two other slots are what
\* the call read; the named slot holds the item of the request ("" when it
\* names none); and an item the slot held before is still in the items map.
C32_EquipFrame ==
    Succeeded("rpc_equip_item") =>
        LET before == Loaded(ev)
            after == Stored(ev.ctx.user)
            id == ev.in.unitInstanceId
            prior == before.units[id].equipment[ev.in.slotName]
        IN  /\ ev.writes = <<"inventory">>
            /\ after.items = before.items
            /\ DOMAIN after.units = DOMAIN before.units
            /\ \A other \in DOMAIN before.units \ {id} :
                  after.units[other] = before.units[other]
            /\ UnitIdentity(after.units[id]) = UnitIdentity(before.units[id])
            /\ DOMAIN after.units[id].equipment = SlotNames
            /\ \A sl \in SlotNames \ {ev.in.slotName} :
                  after.units[id].equipment[sl] = before.units[id].equipment[sl]
            /\ after.units[id].equipment[ev.in.slotName] = Deref(ev.in.itemInstanceId)
            /\ prior # "" => prior \in DOMAIN after.items

\* The request with itemInstanceId null in place of the one it carries.
WithNull(in) == [in EXCEPT !.itemInstanceId = <<>>]

\* C33: a document without the itemInstanceId field is decoded as one with
\* itemInstanceId null; and an equip_item whose itemInstanceId is "" or
\* absent, naming a stored unit and a valid slot, looks no item up: it is
\* never answered item_not_found or item_slot_mismatch, it hands the store
\* an inventory in which the slot is "", and its response and the inventory
\* it hands over are those of the request with null on the inventory read.
C33_EmptyLikeNull ==
    /\ \A unit \in {"id1", "id4"} :
          UnmarshalEquipItemPayload([unitInstanceId |-> unit, slotName |-> "weapon"])
            = UnmarshalEquipItemPayload([unitInstanceId |-> unit, slotName |-> "weapon",
                                         itemInstanceId |-> JsonNull])
    /\ EquipOnStoredUnit /\ Deref(ev.in.itemInstanceId) = "" =>
          LET null == Equip(Loaded(ev), WithNull(ev.in))
          IN  /\ ev.msg \in {"", "failed_to_save_equipment"}
              /\ "" \notin DOMAIN Loaded(ev).items
              /\ ev.invRaw = <<MarshalInventory(null.inv)>>
              /\ ev.invRaw[1].units[ev.in.unitInstanceId].equipment[ev.in.slotName] = ""
              /\ ev.code = 0 =>
                    /\ ev.body.unit = null.unit
                    /\ inventoryStore[ev.ctx.user] = ev.invRaw

\* An equip_item with itemInstanceId "" on the unit whose weapon slot names
\* the sword went as far as the save, with the slot cleared in the inventory
\* it handed over.
C33_Witness ==
    /\ Returns("rpc_equip_item")
    /\ ev.in.itemInstanceId = <<"">>
    /\ ev.in.unitInstanceId = "id4" /\ ev.in.slotName = "weapon"
    /\ Loaded(ev).units["id4"].equipment.weapon = "id2"
    /\ ev.msg = "failed_to_save_equipment"
    /\ ev.invRaw[1].units["id4"].equipment.weapon = ""

\* C34: the username of a profile is fixed by the call that stores the
\* profile first: when that call is not get_state the stored username is the
\* one derived from the user id, whatever the session username; once a
\* profile is stored its username never changes; and get_state returns the
\* stored username.
C34_UsernameFixedByFirstCall ==
    /\ [][\A u \in UserIds :
            /\ profileStore[u] = <<>> /\ profileStore'[u] # <<>>
                 /\ call[1].op # "rpc_get_state"
               => profileStore'[u][1].username = DefaultUsername(u, <<>>)
            /\ profileStore[u] # <<>>
               => /\ profileStore'[u] # <<>>
                  /\ profileStore'[u][1].username = profileStore[u][1].username]_vars
    /\ [](Succeeded("rpc_get_state") /\ profileStore[ev.target] # <<>> =>
            ev.body.profile.username = profileStore[ev.target][1].username)

\* The first call of a user, create_unit, has stored the profile under the
\* derived name; get_state in a session with a username then returns the
\* derived name with the unit, and has written nothing.
C34_Witness ==
    /\ Succeeded("rpc_get_state")
    /\ ncalls = 2
    /\ ev.ctx.username = Nick
    /\ ev.writes = <<>>
    /\ Len(ev.body.units) = 1
    /\ ev.body.profile.username = DefaultUsername(U1, <<>>)
    /\ ev.body.profile.username # Nick
    /\ ev.body.profile.createdAt = 1

\* A returned call was turned down before any storage call with the given
\* code and message.
TurnedDown(code, msg) ==
    /\ ev.code = code /\ ev.msg = msg
    /\ ~ev.loaded /\ ev.writes = <<>>

\* C36: equip_item reports the first check that fails, in the order caller
\* identity, payload present, payload parseable, unitInstanceId and slotName
\* non-empty, slotName valid (all before any storage call), then, no storage
\* call failing, unit stored, item stored, slot match.  A request with an
\* invalid slotName is an invalid argument whatever unit it names, and one
\* with an unknown unit is unit_not_found whatever item it names.
C36_EquipCheckOrder ==
    ev.op = "rpc_equip_item" =>
        LET in == ev.in
            json == ev.ctx.user # NoUser /\ in.text = "json"
            named == json /\ in.unitInstanceId # "" /\ in.slotName # ""
            checked == named /\ in.slotName \in SlotNames
            looked == checked /\ ~ev.readFailed /\ ev.msg \notin StorageFailures
            hasUnit == looked /\ in.unitInstanceId \in DOMAIN StoredUnits(ev.ctx.user)
            item == Deref(in.itemInstanceId)
            hasItem == hasUnit /\ item # "" /\ item \in DOMAIN StoredItems(ev.ctx.user)
        IN  /\ ev.ctx.user = NoUser => TurnedDown(CodePermission, "user_id_required")
            /\ ev.ctx.user # NoUser /\ in.text = "empty"
                  => TurnedDown(CodeInvalidArg, "missing_payload")
            /\ ev.ctx.user # NoUser /\ in.text = "malformed"
                  => TurnedDown(CodeInvalidArg, "invalid_json")
            /\ json /\ ~named
                  => TurnedDown(CodeInvalidArg, "missing_unitInstanceId_or_slotName")
            /\ named /\ ~checked
                  => TurnedDown(CodeInvalidArg, "slotName must be weapon, armor, or relic")
            /\ checked => ev.loaded
            /\ looked /\ ~hasUnit
                  => ev.code = CodeNotFound /\ ev.msg = "unit_not_found"
            /\ hasUnit /\ item # "" /\ ~hasItem
                  => ev.code = CodeNotFound /\ ev.msg = "item_not_found"
            /\ hasItem /\ ~slotMatch(in.slotName, StoredItems(ev.ctx.user)[item].slot)
                  => ev.code = CodeInvalidArg /\ ev.msg = "item_slot_mismatch"

\* equip_item names a unit and an item of which the stored inventory, which
\* holds another item, has neither: unit_not_found.
C36_Witness ==
    /\ ev.op = "rpc_equip_item" /\ ev.ctx.user = U1
    /\ ev.in.text = "json" /\ ev.in.slotName = "weapon"
    /\ ~ev.readFailed
    /\ StoredItems(U1) # EmptyMap
    /\ ev.in.unitInstanceId \notin DOMAIN StoredUnits(U1)
    /\ Deref(ev.in.itemInstanceId) \notin DOMAIN StoredItems(U1) \cup {""}
    /\ ev.msg = "unit_not_found"

\* The user other than u.
OtherUser(u) == CHOOSE v \in UserIds : v # u

\* C37: a call reads the records of one user, its target, who is the caller
\* for get_state, create_unit, equip_item and compute_final_stats; a step
\* changes the records of that user only, so a record of a user other than
\* the caller changes only in a grant_item call that names that user as
\* targetUserId; and equip_item, no storage call failing, that names a unit
\* (an item) found only in the other user's inventory fails with NotFound.
C37_PerUserIsolation ==
    /\ [](pc[1] # "idle" =>
            LET c == call[1]
            IN  /\ c.op \in CallerOps => c.target = c.ctx.user
                /\ c.op = "rpc_grant_item" => c.target = GrantTarget(c)
                /\ c.profileJSON \in {<<>>, profileStore[c.target]}
                /\ c.walletJSON \in {<<>>, walletStore[c.target]}
                /\ c.inventoryJSON \in {<<>>, inventoryStore[c.target]})
    /\ [][\A u \in UserIds :
            Records(u)' # Records(u) =>
                /\ pc[1] # "idle" /\ call[1].target = u
                /\ u # call[1].ctx.user =>
                      call[1].op = "rpc_grant_item" /\ call[1].in.targetUserId = u]_vars
    /\ [](Returns("rpc_equip_item") /\ ev.loaded /\ ~ev.readFailed
            /\ ev.msg \notin StorageFailures =>
            LET me == ev.ctx.user
                other == OtherUser(me)
                item == Deref(ev.in.itemInstanceId)
            IN  /\ ev.in.unitInstanceId \in DOMAIN StoredUnits(other) \ DOMAIN StoredUnits(me)
                      => /\ ev.code = CodeNotFound /\ ev.msg = "unit_not_found"
                         /\ "inventory" \notin Range(ev.writes)
                /\ ev.in.unitInstanceId \in DOMAIN StoredUnits(me)
                     /\ item \in DOMAIN StoredItems(other) \ DOMAIN StoredItems(me)
                      => /\ ev.code = CodeNotFound /\ ev.msg = "item_not_found"
                         /\ "inventory" \notin Range(ev.writes))

\* user-0001 has a unit, bob was granted an item, and user-0001's equip of
\* that item on the unit is turned down with item_not_found; bob's inventory
\* still holds the item.
C37_Witness ==
    /\ Returns("rpc_equip_item") /\ ev.ctx.user = U1
    /\ ev.in.unitInstanceId \in DOMAIN StoredUnits(U1)
    /\ Deref(ev.in.itemInstanceId) \in DOMAIN StoredItems(U2)
    /\ StoredItems(U1) = EmptyMap
    /\ ev.msg = "item_not_found"
    /\ StoredUnits(U1)[ev.in.unitInstanceId].equipment[ev.in.slotName] = ""

\* ------------------------------------------------ records that lack a map

\* Inventory documents of an older or damaged record: the items or the units
\* field absent or null, or both absent.
LegacyRecords ==
    LET items == MarshalItems(RaceInventory.items)
        units == RaceInventory.units
    IN  {[items |-> items], [units |-> units],
         [items |-> NilMap, units |-> units], [items |-> items, units |-> NilMap],
         [f \in {} |-> NilMap]}

\* user-0001 has a profile, a wallet and one of those inventory records.
InitLegacy ==
    /\ adminSecret = "s3cret"
    /\ pc = [p \in Procs |-> "idle"]
    /\ call = [p \in Procs |-> Idle]
    /\ nextId = 4
    /\ ncalls = 3
    /\ created = {}
    /\ ev = NoEv
    /\ log = <<>>
    /\ profileStore = [u \in UserIds |-> IF u = U1 THEN <<NewProfile(U1, Nick, 0)>> ELSE <<>>]
    /\ walletStore = [u \in UserIds |-> IF u = U1 THEN <<NewWallet>> ELSE <<>>]
    /\ \E j \in LegacyRecords :
          inventoryStore = [u \in UserIds |-> IF u = U1 THEN <<j>> ELSE <<>>]

LegacyRequests ==
    {Request("rpc_get_state", Caller(U1), EmptyObject),
     Request("rpc_create_unit", Caller(U1), CreateUnitValid),
     Request("rpc_grant_item", Caller(U1), GrantItemValid)}
    \cup {Request("rpc_equip_item", Caller(U1),
                  [text |-> "json", unitInstanceId |-> "id1", slotName |-> "weapon",
                   itemInstanceId |-> i]) : i \in {<<>>, <<"id2">>}}

\* One client of a store that does not fail.
NextLegacy ==
    \/ \E req \in LegacyRequests :
         ncalls < 3 + MaxLegacyCalls /\ Begin(1, req) /\ UNCHANGED log
    \/ ReadProfile(1, Reliable) /\ UNCHANGED log
    \/ ReadWallet(1, Reliable) /\ UNCHANGED log
    \/ ReadInventory(1, Reliable) /\ UNCHANGED log
    \/ GetState(1) /\ UNCHANGED log
    \/ CreateUnit(1, Reliable) /\ UNCHANGED log
    \/ GrantItem(1, Reliable) /\ UNCHANGED log
    \/ EquipItem(1, Reliable) /\ UNCHANGED log

SpecLegacy == InitLegacy /\ [][NextLegacy]_vars

\* The keys of a map field of an inventory document: none when the field is
\* absent or null.
FieldKeys(j, f) == IF f \in DOMAIN j THEN Keys(j[f]) ELSE {}

\* C38: a call that finds an inventory record lacking the items or the units
\* map does not fail to load; get_state counts the entries of the maps the
\* record has and 0 for a map it lacks; a create_unit or grant_item that
\* follows gets as far as the save; and the record a create_unit, grant_item
\* or equip_item hands to the store has both maps, neither null, with every
\* entry the record read had, and is the stored record when the call
\* succeeded.
C38_MissingMapRepaired ==
    ev.op # "none" /\ ev.loaded =>
        LET read == ev.inventoryJSON[1]
        IN  /\ ev.inventoryJSON # <<>>
            /\ ~LoadFailed
            /\ ev.op = "rpc_get_state" =>
                  /\ ev.code = 0
                  /\ ev.body.inventorySummary.itemsCount = Cardinality(FieldKeys(read, "items"))
                  /\ ev.body.inventorySummary.unitsCount = Cardinality(FieldKeys(read, "units"))
                  /\ Len(ev.body.units) = Cardinality(FieldKeys(read, "units"))
            /\ ev.op \in {"rpc_create_unit", "rpc_grant_item"} => ev.invRaw # <<>>
            /\ ev.invRaw # <<>> =>
                  LET j == ev.invRaw[1]
                  IN  /\ {"items", "units"} \subseteq DOMAIN j
                      /\ ~IsNil(j.items) /\ ~IsNil(j.units)
                      /\ FieldKeys(read, "items") \subseteq DOMAIN j.items
                      /\ FieldKeys(read, "units") \subseteq DOMAIN j.units
                      /\ \A id \in FieldKeys(read, "items") : j.items[id] = read.items[id]
                      /\ \A id \in FieldKeys(read, "units") : j.units[id] = read.units[id]
                      /\ ev.code = 0 => inventoryStore[ev.target] = ev.invRaw

\* get_state of a user whose inventory record has a unit and no items field
\* succeeded and reported 0 items and 1 unit.
C38_Witness ==
    /\ Succeeded("rpc_get_state")
    /\ ev.inventoryJSON # <<>>
    /\ "items" \notin DOMAIN ev.inventoryJSON[1]
    /\ ev.body.inventorySummary.itemsCount = 0
    /\ ev.body.inventorySummary.unitsCount = 1

\* ------------------------------------------------- every set of stat keys

\* The 7 canonical keys and two that are not.
StatKeyUniverse == StatKeys \cup {"luck", "speed"}

\* create_unit with a stats map over every subset of those keys.
ValidateRequests ==
    {Request("rpc_create_unit", Caller(U1),
             [CreateUnitValid EXCEPT !.stats = [k \in S |-> 1]]) :
        S \in SUBSET StatKeyUniverse}

\* One client of a store that does not fail.
NextValidate ==
    \/ \E req \in ValidateRequests :
         ncalls < MaxValidateCalls /\ Begin(1, req) /\ UNCHANGED log
    \/ ReadProfile(1, Reliable) /\ UNCHANGED log
    \/ ReadWallet(1, Reliable) /\ UNCHANGED log
    \/ ReadInventory(1, Reliable) /\ UNCHANGED log
    \/ WriteProfile(1, Reliable) /\ UNCHANGED log
    \/ WriteWallet(1, Reliable) /\ UNCHANGED log
    \/ CreateUnit(1, Reliable) /\ UNCHANGED log

SpecValidate == Init /\ [][NextValidate]_vars

\* C39: no create_unit is turned down with "missing required stat": a stats
\* map of 7 keys, all canonical, has every canonical key, so a map that lacks
\* a canonical key is turned down by the size check or by the membership
\* check, before any storage call; a map of the 7 canonical keys goes on to
\* the load step.
C39_CompletenessNeverFails ==
    /\ \A r \in UNION {validateUnitStats(req.in.stats) : req \in ValidateRequests} :
          r.msg # "missing required stat"
    /\ ev.op = "rpc_create_unit" =>
          /\ ev.msg # "missing required stat"
          /\ ~(StatKeys \subseteq Keys(ev.in.stats)) =>
                /\ ev.code = CodeInvalidArg
                /\ ~ev.loaded /\ ev.writes = <<>>
                /\ IF MapLen(ev.in.stats) # 7
                   THEN ev.msg = "stats must contain exactly the 7 allowed keys"
                   ELSE /\ ev.msg = "invalid stat key"
                        /\ ev.key \in Keys(ev.in.stats) \ StatKeys
          /\ MapLen(ev.in.stats) = 7 /\ Keys(ev.in.stats) \subseteq StatKeys =>
                Keys(ev.in.stats) = StatKeys /\ ev.loaded
                   /\ ev.msg \in {"", "failed_to_save_unit"}

\* A map of 7 keys that lacks maneuver is turned down for its key luck.
C39_Witness ==
    /\ ev.op = "rpc_create_unit"
    /\ MapLen(ev.in.stats) = 7
    /\ Keys(ev.in.stats) = (StatKeys \ {"maneuver"}) \cup {"luck"}
    /\ ev.msg = "invalid stat key" /\ ev.key = "luck"

====
